---- MODULE Spec2Model ----
(***************************************************************************)
(* code-lod: the content-addressed staleness cache (db.py, staleness.py)   *)
(* and the concurrent generation pipeline on top of it (pipeline.py).      *)
(*                                                                         *)
(* One pipeline run is pipeline_generate(files, ..., force): a pool of     *)
(* scanner tasks (scan_with_tracking) feeds a pool of llm_worker threads   *)
(* through entity_queue; FileCompletionTracker counts each file's pending  *)
(* entities and the worker that sees the count reach zero writes the       *)
(* file's .lod output.  Between runs the store persists and an             *)
(* administrator may call HashIndex.mark_stale.                            *)
(*                                                                         *)
(* Spec and LiveSpec are the pipeline, StoreSpec the store called on its   *)
(* own, HashSpec the content hash of a source text and of one edit of it   *)
(* (hashing.py), ModelSpec the model lookup (config.py, models.py),        *)
(* LockSpec the two thread bodies of the pipeline lock by lock,            *)
(* ProgressSpec the pipeline together with its ProgressCounter calls, and  *)
(* LinkSpec the pipeline on an input list whose second entry is a          *)
(* symbolic link to the first.                                             *)
(***************************************************************************)
EXTENDS Naturals, Integers, Sequences, FiniteSets, TLC

\* ------------------------------------------------------------------ bounds

\* config.max_parallelism: size of the scanner pool and of the worker pool.
MaxParallelism == 2
\* Number of consecutive pipeline_generate runs on the same store.
MaxRuns == 2

\* ------------------------------------------------------------------ inputs

None == "None"

\* models.Scope
MODULE_SCOPE == "module"
FUNCTION_SCOPE == "function"

\* The input file list of pipeline_generate.
files == <<"a", "b">>

Paths == {files[i] : i \in 1..Len(files)}

\* parser.parse_file(path): the module entity first, then the functions.
\* The function f is the same code in both files (one content hash).
ParseFile(path) ==
    IF path = "a"
    THEN << [name |-> "a", scope |-> MODULE_SCOPE, ast_hash |-> "h1"],
            [name |-> "f", scope |-> FUNCTION_SCOPE, ast_hash |-> "h2"] >>
    ELSE << [name |-> "b", scope |-> MODULE_SCOPE, ast_hash |-> "h3"],
            [name |-> "f", scope |-> FUNCTION_SCOPE, ast_hash |-> "h2"] >>

Hashes == {ParseFile(p)[k].ast_hash : p \in Paths, k \in 1..2}

\* path.read_text() in parse_file raises for a file that cannot be read or
\* decoded: either every input file is readable, or b is not.
Unreadable == {{}, {"b"}}

\* LANGUAGE_MAP.get(path.suffix.lower()) is None for a file whose suffix is not
\* in LANGUAGE_MAP: either every input file has a known suffix, or b has not.
Unrecognized == {{}, {"b"}}

\* Path.resolve() follows symbolic links: either no input file is a link, or b
\* is a link to a.
Linked == {{}, {"b"}}

\* Config.provider / Config.model_settings: the default configuration (mock
\* provider, no model settings) and a mock provider with a model configured
\* for the function scope only.
NoModels ==
    [default |-> None, project |-> None, package |-> None,
     module |-> None, class_ |-> None, function |-> None]

Configs ==
    { [provider |-> "mock", model_settings |-> [p \in {} |-> NoModels]],
      [provider |-> "mock",
       model_settings |-> [p \in {"mock"} |-> [NoModels EXCEPT !.function = "m1"]]] }

\* The values Python's "or" skips: None and the empty string.
Falsy == {None, ""}

\* Faulty variant: the default wins over the scope's field.
ModelConfig_get_model_for_scope_DefaultFirst(model_config, scope) ==
    IF model_config.default \notin Falsy
    THEN model_config.default
    ELSE IF scope = "function" THEN model_config.function
    ELSE IF scope = "class" THEN model_config.class_
    ELSE None

\* ModelConfig.get_model_for_scope: scope_to_field.get(scope) or self.default.
ModelConfig_get_model_for_scope(model_config, scope) ==
    LET scope_to_field ==
            [s \in {"project", "package", "module", "class", "function"} |->
                CASE s = "project" -> model_config.project
                  [] s = "package" -> model_config.package
                  [] s = "module" -> model_config.module
                  [] s = "class" -> model_config.class_
                  [] s = "function" -> model_config.function]
        v == IF scope \in DOMAIN scope_to_field THEN scope_to_field[scope] ELSE None
    IN IF v \notin Falsy THEN v ELSE model_config.default

\* config.get_model_for_scope(config, provider, scope)
get_model_for_scope(cfg, provider, scope) ==
    IF provider \notin DOMAIN cfg.model_settings
    THEN None
    ELSE IF scope = None
         THEN cfg.model_settings[provider].default
         ELSE ModelConfig_get_model_for_scope(cfg.model_settings[provider], scope)

\* ------------------------------------------------------------------ store

\* A row of the descriptions table is [hash, description, stale, created_at,
\* updated_at]; NoRecord stands for the None that HashIndex.get returns when no
\* row matches.
NoRecord ==
    [hash |-> None, description |-> None, stale |-> FALSE,
     created_at |-> None, updated_at |-> None]

\* HashIndex.get: SELECT * FROM descriptions WHERE hash = ? ... fetchone()
HashIndex_get(tbl, hash_) ==
    IF \E r \in tbl : r.hash = hash_
    THEN CHOOSE r \in tbl : r.hash = hash_
    ELSE NoRecord

\* The table's PRIMARY KEY constraint on hash (HashIndex._init_schema): an
\* INSERT of a hash that already has a row raises sqlite3.IntegrityError.
PrimaryKeyViolated(tbl, hash_) == \E r \in tbl : r.hash = hash_

\* Faulty variant: mark_fresh flips the flag instead of clearing it.
HashIndex_mark_fresh_Toggle(tbl, hash_, now_) ==
    {IF r.hash = hash_
     THEN [r EXCEPT !.stale = ~r.stale, !.updated_at = now_]
     ELSE r : r \in tbl}

\* Faulty variant: the write removes the row it should update.
SqlUpdate_Drop(tbl, hash_, description, stale, now_) ==
    {r \in tbl : r.hash # hash_}

\* Faulty variant: the UPDATE also resets created_at.
SqlUpdate_ResetCreated(tbl, hash_, description, stale, now_) ==
    {IF r.hash = hash_
     THEN [r EXCEPT !.description = description, !.stale = stale,
                    !.created_at = now_, !.updated_at = now_]
     ELSE r : r \in tbl}

\* Faulty variant: the inserted row is stale whatever flag was passed.
SqlInsert_Stale(tbl, hash_, description, stale, now_) ==
    tbl \cup {[hash |-> hash_, description |-> description, stale |-> TRUE,
               created_at |-> now_, updated_at |-> now_]}

\* INSERT INTO descriptions (hash, description, stale, created_at, updated_at,
\* ...) VALUES (?, ?, ?, now, now, ...)
SqlInsert(tbl, hash_, description, stale, now_) ==
    tbl \cup {[hash |-> hash_, description |-> description, stale |-> stale,
               created_at |-> now_, updated_at |-> now_]}

\* UPDATE descriptions SET description = ?, stale = ?, updated_at = ?, ...
\* WHERE hash = ?
SqlUpdate(tbl, hash_, description, stale, now_) ==
    {IF r.hash = hash_
     THEN [r EXCEPT !.description = description, !.stale = stale,
                    !.updated_at = now_]
     ELSE r : r \in tbl}

\* HashIndex.set called with nothing else running: the lookup, then the UPDATE
\* or the INSERT.
HashIndex_set(tbl, hash_, description, stale, now_) ==
    IF HashIndex_get(tbl, hash_) # NoRecord
    THEN SqlUpdate(tbl, hash_, description, stale, now_)
    ELSE SqlInsert(tbl, hash_, description, stale, now_)

\* HashIndex.mark_stale: UPDATE descriptions SET stale = TRUE, updated_at = ?
\* WHERE hash = ?
HashIndex_mark_stale(tbl, hash_, now_) ==
    {IF r.hash = hash_
     THEN [r EXCEPT !.stale = TRUE, !.updated_at = now_]
     ELSE r : r \in tbl}

\* HashIndex.mark_fresh: UPDATE descriptions SET stale = FALSE, updated_at = ?
\* WHERE hash = ?
HashIndex_mark_fresh(tbl, hash_, now_) ==
    {IF r.hash = hash_
     THEN [r EXCEPT !.stale = FALSE, !.updated_at = now_]
     ELSE r : r \in tbl}

\* HashIndex.delete: DELETE FROM descriptions WHERE hash = ?
HashIndex_delete(tbl, hash_) == {r \in tbl : r.hash # hash_}

\* ------------------------------------------------------------------ generator

\* MockDescriptionGenerator.generate: a text fixed by the entity's scope, name
\* and language.
MockDescription(entity) ==
    CASE entity.scope = MODULE_SCOPE /\ entity.name = "a" -> "Module a written in python."
      [] entity.scope = MODULE_SCOPE /\ entity.name = "b" -> "Module b written in python."
      [] OTHER -> "Function f in python."

\* generate_description passes model= whenever a model is configured;
\* MockDescriptionGenerator.generate(entity, context) has no such parameter
\* and the call raises TypeError.
GeneratorRaises(cfg, model) == cfg.provider = "mock" /\ model # None

\* ------------------------------------------------------------------ state

VARIABLES
    config,               \* the Config object passed to every run
    unreadable,           \* the input files on which parser.parse_file raises
    now,                  \* datetime.utcnow(), as a tick count
    last_op,              \* the last HashIndex call made outside a pipeline run
    table,                \* rows of the descriptions table (HashIndex)
    run,                  \* number of pipeline_generate calls started so far
    force,                \* the force argument of the current run
    prev_force,           \* the force argument of the previous run
    table0,               \* the table as it was when the current run started
    main_pc,              \* position of the thread that called pipeline_generate
    main_k,               \* sentinels put so far by the current sentinel loop
    sc,                   \* scan_with_tracking tasks, one per entry of files
    entity_queue,         \* entity_queue (FIFO)
    file_languages,       \* file_languages
    file_entity_counts,   \* file_entity_counts
    pending_per_file,     \* FileCompletionTracker._pending_per_file
    results_per_file,     \* FileCompletionTracker._results_per_file
    module_descriptions,  \* FileCompletionTracker._module_descriptions
    total_generated,      \* nonlocal total_generated
    total_skipped,        \* nonlocal total_skipped
    active_scanners,      \* nonlocal active_scanners
    files_scanned,        \* ProgressCounter._files_scanned
    active_llm_workers,   \* nonlocal active_llm_workers
    wk,                   \* llm_worker threads
    lod_writes,           \* write_lod_file invocations of the current run, per file,
                          \* each with the number of results the file had by then
    gen_calls,            \* generator.generate calls of the current run, per work item
    dropped,              \* work items whose worker took the except branch, with the error
    unrecognized,         \* the input files whose suffix is not in LANGUAGE_MAP
    source,               \* an entity's source text, a sequence of characters
    edited,               \* the same source after one edit
    edit,                 \* the kind of that edit
    lookup,               \* the last get_model_for_scope call and its result
    lk_pc,                \* per thread, its position in scan_with_tracking / llm_worker
    lk_held,              \* per thread, the locks it holds
    lk_queue,             \* entity_queue in the lock-level view, as counts
    linked,               \* the input files that are symbolic links to file a
    progress,             \* the ProgressCounter's fields other than _files_scanned
    calls                 \* per thread, the ProgressCounter calls it makes next

\* The variables of the lock-level view of the pipeline's threads.
lock_vars == <<lk_pc, lk_held, lk_queue>>

\* The ProgressCounter and the calls to it that the threads are about to make.
progress_vars == <<progress, calls>>

\* The variables of the calls of pure functions (hashing.py, config.py) and of
\* the lock-level view.
call_vars == <<source, edited, edit, lookup, lock_vars>>

store_vars ==
    <<config, unreadable, unrecognized, linked, call_vars, now, last_op, table, run, force,
      prev_force, table0>>
tracker_vars == <<pending_per_file, results_per_file, module_descriptions>>
scan_vars == <<sc, file_languages, file_entity_counts, active_scanners, files_scanned>>
count_vars == <<total_generated, total_skipped>>
log_vars == <<lod_writes, gen_calls, dropped>>

\* The state of a pipeline_generate call apart from its ProgressCounter.
run_vars ==
    <<main_pc, main_k, entity_queue, wk, active_llm_workers, scan_vars, tracker_vars,
      count_vars, log_vars>>

vars == <<config, unreadable, unrecognized, linked, call_vars,
          now, last_op, table, run, force, prev_force, table0,
          main_pc, main_k, sc, entity_queue, file_languages, file_entity_counts,
          pending_per_file, results_per_file, module_descriptions, total_generated,
          total_skipped, active_scanners, files_scanned, active_llm_workers, wk,
          lod_writes, gen_calls, dropped, progress_vars>>

Workers == 1..MaxParallelism
Tasks == 1..Len(files)
ItemIds == {<<i, k>> : i \in Tasks, k \in 1..2}

\* The None sentinel put on entity_queue to stop a worker.
Sentinel ==
    [src |-> 0, k |-> 0, file_path |-> None, language |-> None,
     model |-> None, needs_generation |-> FALSE]

\* ParsedEntityWithFile.entity / GenerationResult.entity
Entity(x) == ParseFile(x.file_path)[x.k]

IdleScanner == [pc |-> "queued", k |-> 0, entities_with_context |-> <<>>, error |-> None]
IdleWorker ==
    [pc |-> "off", ewc |-> Sentinel, description |-> None,
     existing |-> FALSE, was_generated |-> FALSE, reg |-> 0, module_desc |-> None]

\* The locals of a pipeline_generate call before it starts its pools.
FreshRun ==
    /\ main_k = 0
    /\ sc = [i \in Tasks |-> IdleScanner]
    /\ entity_queue = <<>>
    /\ file_languages = [p \in Paths |-> None]
    /\ file_entity_counts = [p \in Paths |-> 0]
    /\ pending_per_file = [p \in Paths |-> 0]
    /\ results_per_file = [p \in Paths |-> <<>>]
    /\ module_descriptions = [p \in Paths |-> None]
    /\ total_generated = 0
    /\ total_skipped = 0
    /\ active_scanners = 0
    /\ files_scanned = 0
    /\ active_llm_workers = 0
    /\ lod_writes = [p \in Paths |-> <<>>]
    /\ gen_calls = [x \in ItemIds |-> 0]
    /\ dropped = {}

\* No HashIndex call has been made yet.  A call is logged with its arguments and
\* with whether it repeats the call before it (times = 2).
NoOp == [op |-> None, hash |-> None, description |-> None, stale |-> FALSE, times |-> 0]

\* ------------------------------------------------------------------ locks

\* Threads of the lock-level view: scanner tasks and llm_worker threads.
MaxLockScanners == 1
MaxLockWorkers == 2
\* Work items put on entity_queue in the lock-level view.
MaxLockItems == 2

\* entity_queue in the lock-level view: the work items and the sentinels
\* waiting in it (the work items first: the sentinels are put after the
\* scanner pool has shut down), the work items put and the sentinels put so far.
EmptyQueue == [items |-> 0, sentinels |-> 0, put |-> 0, pushed |-> 0]

LockThreads ==
    ({"scanner"} \X (1..MaxLockScanners)) \cup ({"worker"} \X (1..MaxLockWorkers))

\* One step of a thread: "with lock:" entered (acquire) or left (release), or
\* anything else it does (do); line is the line of pipeline.py, to the positions
\* the thread may go to next (empty: the next position).
Acq(lock, line) == [op |-> "acquire", lock |-> lock, what |-> None, line |-> line, to |-> {}]
Rel(lock, line) == [op |-> "release", lock |-> lock, what |-> None, line |-> line, to |-> {}]
Do(what, line) == [op |-> "do", lock |-> None, what |-> what, line |-> line, to |-> {}]
Branch(what, line, to) == [op |-> "do", lock |-> None, what |-> what, line |-> line, to |-> to]
End == [op |-> "end", lock |-> None, what |-> None, line |-> 0, to |-> {}]

\* Faulty variant: the progress display calls into the completion tracker.
ProgressSection_CallsTracker(line) ==
    <<Acq("progress", line), Acq("tracker", 199), Rel("progress", line)>>

\* A ProgressCounter method: "with self._lock:" at the given line, the counter
\* update and self._display() (a print to stderr) inside it.
ProgressSection(line) ==
    <<Acq("progress", line), Do("display", 119), Rel("progress", line)>>

\* Faulty variant: the output file is written inside the tracker's lock.
TrackerSection_WritesInside(what, line) ==
    <<Acq("tracker", line), Do("write_lod_file", 421), Rel("tracker", line)>>

\* Faulty variant: the tracker's method takes scanner_lock inside its own lock.
TrackerSection_TakesScannerLock(what, line) ==
    <<Acq("tracker", line), Acq("scanner_lock", 361), Rel("tracker", line)>>

\* A FileCompletionTracker method: "with self._lock:" at the given line and the
\* update or read of the maps inside it.
TrackerSection(what, line) ==
    <<Acq("tracker", line), Do(what, line + 1), Rel("tracker", line)>>

\* scan_with_tracking.  Positions: 1 entry, 7 scan_file, 8 registration,
\* 14 the loop over the work items, 22 the finally block, 31 the end,
\* 32 the except branch.
ScannerProgram ==
    <<Acq("scanner_lock", 350), Do("active_scanners", 351)>>
    \o ProgressSection(105)
    \o <<Rel("scanner_lock", 350),
         Branch("scan_file", 355, {8, 22, 32}),
         Acq("scanner_lock", 361), Do("file_languages", 362)>>
    \o TrackerSection("tracker_maps", 155)
    \o <<Rel("scanner_lock", 361),
         Branch("put", 369, {15, 18})>>
    \o ProgressSection(83)
    \o <<Branch("next_entity", 368, {14, 19})>>
    \o ProgressSection(73)
    \o <<Acq("scanner_lock", 376), Do("active_scanners", 377)>>
    \o ProgressSection(105)
    \o <<Rel("scanner_lock", 376)>>
    \o ProgressSection(63)
    \o <<End,
         Branch("print_error", 374, {22})>>

\* llm_worker.  Positions: 1 entity_queue.get(), 8 generate_description,
\* 9 the counters, 15 add_result, 19 get_file_results, 22
\* get_module_description, 26 write_lod_file, 30 the finally block, 36
\* task_done, 37 the end (a sentinel was read), 38 the except branch.
WorkerProgram ==
    <<Branch("get", 386, {2, 37}),
      Acq("llm_worker_lock", 390), Do("active_llm_workers", 391)>>
    \o ProgressSection(115)
    \o <<Rel("llm_worker_lock", 390),
         Branch("generate_description", 395, {9, 38}),
         Acq("fresh_lock", 397),
         Branch("count", 398, {11, 14})>>
    \o ProgressSection(89)
    \o <<Rel("fresh_lock", 397)>>
    \o TrackerSection("tracker_maps", 167)
    \o <<Branch("file_complete", 405, {19, 30})>>
    \o TrackerSection("tracker_read", 187)
    \o TrackerSection("tracker_read", 199)
    \o <<Branch("pairs", 418, {26, 30}),
         Branch("write_lod_file", 421, {27, 38})>>
    \o ProgressSection(95)
    \o <<Acq("llm_worker_lock", 433), Do("active_llm_workers", 434)>>
    \o ProgressSection(115)
    \o <<Rel("llm_worker_lock", 433),
         Branch("task_done", 437, {1}),
         End,
         Branch("print_error", 430, {30})>>

Program(t) == IF t[1] = "scanner" THEN ScannerProgram ELSE WorkerProgram

\* No source has been hashed, no model has been looked up, no thread has started.
\* ProgressCounter.__init__: every counter is 0.
NoProgress ==
    [entities_discovered |-> 0, entities_to_generate |-> 0,
     descriptions_generated |-> 0, lod_files_written |-> 0,
     active_scanners |-> 0, active_llm_workers |-> 0]

\* The threads that call the ProgressCounter: the scan_with_tracking tasks and
\* the llm_worker threads.
ProgressThreads == ({"scanner"} \X Tasks) \cup ({"worker"} \X Workers)

NoLookup == [provider |-> None, scope |-> None, result |-> None]

NoCalls ==
    /\ source = <<>>
    /\ edited = <<>>
    /\ edit = None
    /\ lookup = NoLookup
    /\ lk_pc = [t \in LockThreads |-> 1]
    /\ lk_held = [t \in LockThreads |-> {}]
    /\ lk_queue = EmptyQueue

\* An empty store, no pipeline run started, the input files chosen.
Idle ==
    /\ unreadable \in Unreadable
    /\ unrecognized \in {u \in Unrecognized : u = {} \/ unreadable = {}}
    /\ linked \in {l \in Linked : l = {} \/ unreadable \cup unrecognized = {}}
    /\ progress = NoProgress
    /\ calls = [t \in ProgressThreads |-> <<>>]
    /\ now = 0
    /\ last_op = NoOp
    /\ table = {}
    /\ run = 0
    /\ force = FALSE
    /\ prev_force = FALSE
    /\ table0 = {}
    /\ main_pc = "idle"
    /\ wk = [w \in Workers |-> IdleWorker]
    /\ FreshRun

\* The input files are distinct files.
Init ==
    /\ config \in Configs
    /\ Idle
    /\ linked = {}
    /\ NoCalls

\* ------------------------------------------------------------------ between runs

\* Number of records an administrator marks stale between two runs.
MaxStale == 1

\* StalenessTracker.mark_stale(hash_) called while no pipeline is running.
MarkStale(h) ==
    /\ main_pc = "idle"
    /\ Cardinality({r \in table : r.stale}) < MaxStale
    /\ table' = HashIndex_mark_stale(table, h, now)
    /\ UNCHANGED <<config, unreadable, unrecognized, linked, call_vars, now, last_op, run, force, prev_force, table0,
                   main_pc, main_k, entity_queue, wk, active_llm_workers>>
    /\ UNCHANGED <<scan_vars, tracker_vars, count_vars, log_vars>>

\* pipeline_generate(files, ..., force) is called: shared state initialised,
\* the first pool of max_parallelism llm_worker threads submitted.
StartRun(f) ==
    /\ main_pc = "idle"
    /\ run < MaxRuns
    /\ run' = run + 1
    /\ force' = f
    /\ prev_force' = force
    /\ table0' = table
    /\ main_pc' = "scanning"
    /\ wk' = [w \in Workers |-> [IdleWorker EXCEPT !.pc = "get"]]
    /\ UNCHANGED <<config, unreadable, unrecognized, linked, call_vars, now, last_op, table, main_k, entity_queue,
                   active_llm_workers>>
    /\ UNCHANGED <<scan_vars, tracker_vars, count_vars, log_vars>>

\* ------------------------------------------------------------------ scanner

\* Faulty variant: a stale record counts as fresh.
NeedsGeneration_IgnoreStale(force_, tbl, hash_) ==
    IF force_ THEN TRUE ELSE HashIndex_get(tbl, hash_) = NoRecord

\* Faulty variant: force does not override the store lookup.
NeedsGeneration_IgnoreForce(force_, tbl, hash_) ==
    LET record == HashIndex_get(tbl, hash_)
    IN record = NoRecord \/ record.stale

\* scan_file's staleness check for one entity.
NeedsGeneration(force_, tbl, hash_) ==
    IF force_
    THEN TRUE
    ELSE LET record == HashIndex_get(tbl, hash_)
         IN record = NoRecord \/ record.stale

Running(i) == sc[i].pc \notin {"queued", "done"}

\* scan_file raises: parser.parse_file cannot read the file.
ScanRaises(path) == path \in unreadable

\* Faulty variant: the except branch leaves the task without the finally block.
ScanExceptBranch_SkipFinally == "done"

\* Where scan_with_tracking goes from its except branch (the error is printed).
ScanExceptBranch == "finally"

\* file_path.resolve() in scan_file
Resolve(path) == IF path \in linked THEN "a" ELSE path

\* Faulty variant: a file without a known suffix is parsed as Python.
DetectLanguage_AlwaysPython(path) == "python"

\* detect_language(path): LANGUAGE_MAP.get(suffix), None for an unknown suffix.
DetectLanguage(path) == IF path \in unrecognized THEN None ELSE "python"

\* A pool thread takes the next scan_with_tracking task: active_scanners += 1
\* under scanner_lock; scan_file resolves the path, detects the language and
\* parses the file.  Without a language scan_file returns [] and "", and
\* scan_with_tracking skips the registration and the puts.  An exception of
\* scan_file is caught by scan_with_tracking, which prints the error.
ScanStart(i) ==
    /\ main_pc = "scanning"
    /\ sc[i].pc = "queued"
    /\ \A j \in Tasks : j < i => sc[j].pc # "queued"
    /\ Cardinality({j \in Tasks : Running(j)}) < MaxParallelism
    /\ active_scanners' = active_scanners + 1
    /\ sc' = [sc EXCEPT ![i] =
                 IF DetectLanguage(Resolve(files[i])) = None
                 THEN [@ EXCEPT !.pc = "finally"]
                 ELSE IF ScanRaises(Resolve(files[i]))
                 THEN [@ EXCEPT !.pc = ScanExceptBranch, !.error = "Error scanning"]
                 ELSE [@ EXCEPT !.pc = "scan_file", !.k = 1]]
    /\ UNCHANGED <<store_vars, main_pc, main_k, entity_queue, file_languages,
                   file_entity_counts, files_scanned, wk, active_llm_workers>>
    /\ UNCHANGED <<tracker_vars, count_vars, log_vars>>

\* Faulty variant: the lookup of scan_file stores a placeholder record for the
\* entity and the scan ends.
ScanFile_Touch(i) ==
    /\ sc[i].pc = "scan_file"
    /\ table' = HashIndex_set(table, ParseFile(Resolve(files[i]))[sc[i].k].ast_hash,
                               None, TRUE, now)
    /\ sc' = [sc EXCEPT ![i] = [@ EXCEPT !.pc = "finally"]]
    /\ UNCHANGED <<config, unreadable, unrecognized, linked, call_vars, now, last_op, run, force,
                   prev_force, table0>>
    /\ UNCHANGED <<main_pc, main_k, entity_queue, file_languages, file_entity_counts,
                   active_scanners, files_scanned, wk, active_llm_workers>>
    /\ UNCHANGED <<tracker_vars, count_vars, log_vars>>

\* One iteration of scan_file's loop over the entities: the store lookup, the
\* needs_generation decision, the model lookup, the work item appended.
ScanFile(i) ==
    /\ sc[i].pc = "scan_file"
    /\ LET path == Resolve(files[i])
           entities == ParseFile(path)
           entity == entities[sc[i].k]
           ewc == [src |-> i, k |-> sc[i].k, file_path |-> path,
                   language |-> DetectLanguage(path),
                   model |-> get_model_for_scope(config, config.provider, entity.scope),
                   needs_generation |-> NeedsGeneration(force, table, entity.ast_hash)]
       IN sc' = [sc EXCEPT ![i] =
                    [pc |-> IF sc[i].k = Len(entities) THEN "register" ELSE "scan_file",
                     k |-> IF sc[i].k = Len(entities) THEN 1 ELSE sc[i].k + 1,
                     entities_with_context |-> Append(@.entities_with_context, ewc),
                     error |-> None]]
    /\ UNCHANGED <<store_vars, main_pc, main_k, entity_queue, file_languages,
                   file_entity_counts, active_scanners, files_scanned, wk,
                   active_llm_workers>>
    /\ UNCHANGED <<tracker_vars, count_vars, log_vars>>

\* FileCompletionTracker.register_file
register_file(pending, file_path, entity_count) ==
    [pending EXCEPT ![file_path] = entity_count]

\* Faulty variant: the file's language is not recorded.
ScanRegister_NoLanguage(i) ==
    /\ sc[i].pc = "register"
    /\ LET ewcs == sc[i].entities_with_context
           resolved_file_path == ewcs[1].file_path
       IN /\ file_entity_counts' =
                [file_entity_counts EXCEPT ![resolved_file_path] = Len(ewcs)]
          /\ pending_per_file' =
                register_file(pending_per_file, resolved_file_path, Len(ewcs))
    /\ sc' = [sc EXCEPT ![i] = [@ EXCEPT !.pc = "put", !.k = 1]]
    /\ UNCHANGED <<store_vars, main_pc, main_k, entity_queue, active_scanners,
                   files_scanned, wk, active_llm_workers, results_per_file,
                   module_descriptions, file_languages>>
    /\ UNCHANGED <<count_vars, log_vars>>

\* scan_with_tracking, under scanner_lock: the file's language, entity count
\* and pending count are recorded.
ScanRegister(i) ==
    /\ sc[i].pc = "register"
    /\ LET ewcs == sc[i].entities_with_context
           resolved_file_path == ewcs[1].file_path
       IN /\ file_languages' =
                [file_languages EXCEPT ![resolved_file_path] = ewcs[1].language]
          /\ file_entity_counts' =
                [file_entity_counts EXCEPT ![resolved_file_path] = Len(ewcs)]
          /\ pending_per_file' =
                register_file(pending_per_file, resolved_file_path, Len(ewcs))
    /\ sc' = [sc EXCEPT ![i] = [@ EXCEPT !.pc = "put", !.k = 1]]
    /\ UNCHANGED <<store_vars, main_pc, main_k, entity_queue, active_scanners,
                   files_scanned, wk, active_llm_workers, results_per_file,
                   module_descriptions>>
    /\ UNCHANGED <<count_vars, log_vars>>

\* scan_with_tracking: entity_queue.put(ewc), one work item per step.
ScanPut(i) ==
    /\ sc[i].pc = "put"
    /\ LET ewcs == sc[i].entities_with_context
       IN /\ entity_queue' = Append(entity_queue, ewcs[sc[i].k])
          /\ sc' = [sc EXCEPT ![i] =
                       [@ EXCEPT !.pc = IF sc[i].k = Len(ewcs) THEN "finally" ELSE "put",
                                 !.k = sc[i].k + 1]]
    /\ UNCHANGED <<store_vars, main_pc, main_k, file_languages,
                   file_entity_counts, active_scanners, files_scanned, wk,
                   active_llm_workers>>
    /\ UNCHANGED <<tracker_vars, count_vars, log_vars>>

\* Faulty variant: the finally block counts the file but leaves active_scanners.
ScanFinally_KeepsActive(i) ==
    /\ sc[i].pc = "finally"
    /\ files_scanned' = files_scanned + 1
    /\ sc' = [sc EXCEPT ![i] = [pc |-> "done", k |-> 0, entities_with_context |-> <<>>,
                                 error |-> @.error]]
    /\ UNCHANGED <<store_vars, main_pc, main_k, entity_queue, file_languages,
                   file_entity_counts, wk, active_llm_workers, active_scanners>>
    /\ UNCHANGED <<tracker_vars, count_vars, log_vars>>

\* scan_with_tracking's finally block: active_scanners -= 1 under scanner_lock,
\* then progress.increment_files_scanned().
ScanFinally(i) ==
    /\ sc[i].pc = "finally"
    /\ active_scanners' = active_scanners - 1
    /\ files_scanned' = files_scanned + 1
    /\ sc' = [sc EXCEPT ![i] = [pc |-> "done", k |-> 0, entities_with_context |-> <<>>,
                                 error |-> @.error]]
    /\ UNCHANGED <<store_vars, main_pc, main_k, entity_queue, file_languages,
                   file_entity_counts, wk, active_llm_workers>>
    /\ UNCHANGED <<tracker_vars, count_vars, log_vars>>

\* ------------------------------------------------------------------ worker

ItemId(ewc) == <<ewc.src, ewc.k>>

\* What llm_worker's except branch prints: the work item and the exception.
Dropped(ewc, error) == [item |-> ItemId(ewc), error |-> error]

\* Faulty variant: the exception ends the worker's loop.
ExceptBranch_Abort == "exited"

\* Where llm_worker goes from its except branch: on to the finally block.
ExceptBranch == "finally"

\* Faulty variant: the worker generates whatever the flag says.
WorkerNeedsGeneration_Always(ewc) == TRUE

\* Faulty variant: the worker looks the record up again instead of using the flag.
WorkerNeedsGeneration_Recheck(ewc) ==
    LET record == HashIndex_get(table, ParseFile(ewc.file_path)[ewc.k].ast_hash)
    IN force \/ record = NoRecord \/ record.stale

\* generate_description's test of the work item's needs_generation flag.
WorkerNeedsGeneration(ewc) == ewc.needs_generation

\* Faulty variant: a worker takes work only after every scanner task is over.
WorkerGet_AfterScan(w) ==
    /\ wk[w].pc = "get"
    /\ entity_queue # <<>>
    /\ \A i \in Tasks : sc[i].pc = "done"
    /\ entity_queue' = Tail(entity_queue)
    /\ IF Head(entity_queue) = Sentinel
       THEN /\ wk' = [wk EXCEPT ![w] = [IdleWorker EXCEPT !.pc = "exited"]]
            /\ UNCHANGED active_llm_workers
       ELSE /\ wk' = [wk EXCEPT ![w] =
                        [@ EXCEPT !.pc = "generate_description",
                                  !.ewc = Head(entity_queue)]]
            /\ active_llm_workers' = active_llm_workers + 1
    /\ UNCHANGED <<store_vars, main_pc, main_k>>
    /\ UNCHANGED <<scan_vars, tracker_vars, count_vars, log_vars>>

\* llm_worker: ewc = entity_queue.get(); a None ends the loop, otherwise
\* active_llm_workers += 1 under llm_worker_lock.
WorkerGet(w) ==
    /\ wk[w].pc = "get"
    /\ entity_queue # <<>>
    /\ entity_queue' = Tail(entity_queue)
    /\ IF Head(entity_queue) = Sentinel
       THEN /\ wk' = [wk EXCEPT ![w] = [IdleWorker EXCEPT !.pc = "exited"]]
            /\ UNCHANGED active_llm_workers
       ELSE /\ wk' = [wk EXCEPT ![w] =
                        [@ EXCEPT !.pc = "generate_description",
                                  !.ewc = Head(entity_queue)]]
            /\ active_llm_workers' = active_llm_workers + 1
    /\ UNCHANGED <<store_vars, main_pc, main_k>>
    /\ UNCHANGED <<scan_vars, tracker_vars, count_vars, log_vars>>

\* Faulty variant: the cached branch returns no description.
CachedDescription_Missing(tbl, hash_) == None

\* generate_description's cached branch: record.description if record else None
CachedDescription(tbl, hash_) ==
    LET record == HashIndex_get(tbl, hash_)
    IN IF record # NoRecord THEN record.description ELSE None

\* generate_description, needs_generation false: the stored description is
\* read and returned with was_generated=False.
WorkerCached(w) ==
    /\ wk[w].pc = "generate_description"
    /\ ~WorkerNeedsGeneration(wk[w].ewc)
    /\ wk' = [wk EXCEPT ![w] =
                 [@ EXCEPT !.pc = "count",
                           !.description =
                               CachedDescription(table, Entity(wk[w].ewc).ast_hash),
                           !.was_generated = FALSE]]
    /\ UNCHANGED <<store_vars, main_pc, main_k, entity_queue, active_llm_workers>>
    /\ UNCHANGED <<scan_vars, tracker_vars, count_vars, log_vars>>

\* generate_description, needs_generation true: generator.generate(entity) or
\* generator.generate(entity, model=...); an exception ends the work item in
\* llm_worker's except branch.
WorkerGenerate(w) ==
    /\ wk[w].pc = "generate_description"
    /\ WorkerNeedsGeneration(wk[w].ewc)
    /\ gen_calls' = [gen_calls EXCEPT ![ItemId(wk[w].ewc)] = @ + 1]
    /\ IF GeneratorRaises(config, wk[w].ewc.model)
       THEN /\ dropped' = dropped \cup {Dropped(wk[w].ewc, "TypeError")}
            /\ wk' = [wk EXCEPT ![w] = [@ EXCEPT !.pc = ExceptBranch]]
       ELSE /\ UNCHANGED dropped
            /\ wk' = [wk EXCEPT ![w] =
                        [@ EXCEPT !.pc = "set_get",
                                  !.description = MockDescription(Entity(wk[w].ewc))]]
    /\ UNCHANGED <<store_vars, main_pc, main_k, entity_queue, active_llm_workers,
                   lod_writes>>
    /\ UNCHANGED <<scan_vars, tracker_vars, count_vars>>

\* HashIndex.set, first statement: existing = self.get(hash_)
WorkerSetGet(w) ==
    /\ wk[w].pc = "set_get"
    /\ wk' = [wk EXCEPT ![w] =
                 [@ EXCEPT !.pc = "set_write",
                           !.existing =
                               (HashIndex_get(table, Entity(wk[w].ewc).ast_hash) # NoRecord)]]
    /\ UNCHANGED <<store_vars, main_pc, main_k, entity_queue, active_llm_workers>>
    /\ UNCHANGED <<scan_vars, tracker_vars, count_vars, log_vars>>

\* HashIndex.set, second statement: UPDATE when a record was found, INSERT
\* otherwise; the INSERT raises IntegrityError when the hash has a row by now,
\* and the work item ends in llm_worker's except branch.
WorkerSetWrite(w) ==
    /\ wk[w].pc = "set_write"
    /\ LET hash_ == Entity(wk[w].ewc).ast_hash
       IN IF wk[w].existing
          THEN /\ table' = SqlUpdate(table, hash_, wk[w].description, FALSE, now)
               /\ wk' = [wk EXCEPT ![w] =
                           [@ EXCEPT !.pc = "count", !.was_generated = TRUE]]
               /\ UNCHANGED dropped
          ELSE IF PrimaryKeyViolated(table, hash_)
               THEN /\ UNCHANGED table
                    /\ dropped' = dropped \cup {Dropped(wk[w].ewc, "IntegrityError")}
                    /\ wk' = [wk EXCEPT ![w] = [@ EXCEPT !.pc = ExceptBranch]]
               ELSE /\ table' = SqlInsert(table, hash_, wk[w].description, FALSE, now)
                    /\ wk' = [wk EXCEPT ![w] =
                                [@ EXCEPT !.pc = "count", !.was_generated = TRUE]]
                    /\ UNCHANGED dropped
    /\ UNCHANGED <<config, unreadable, unrecognized, linked, call_vars, now, last_op, run, force, prev_force, table0,
                   main_pc, main_k, entity_queue, active_llm_workers, lod_writes,
                   gen_calls>>
    /\ UNCHANGED <<scan_vars, tracker_vars, count_vars>>

\* llm_worker, "with threading.Lock():" creates a new lock on every entry, so
\* nothing excludes another worker between the read and the write of
\* "total_generated += 1" / "total_skipped += 1".  This step is the read.
WorkerCountRead(w) ==
    /\ wk[w].pc = "count"
    /\ wk' = [wk EXCEPT ![w] =
                 [@ EXCEPT !.pc = "count_write",
                           !.reg = IF wk[w].was_generated
                                   THEN total_generated ELSE total_skipped]]
    /\ UNCHANGED <<store_vars, main_pc, main_k, entity_queue, active_llm_workers>>
    /\ UNCHANGED <<scan_vars, tracker_vars, count_vars, log_vars>>

\* The write of "total_generated += 1" / "total_skipped += 1".
WorkerCountWrite(w) ==
    /\ wk[w].pc = "count_write"
    /\ IF wk[w].was_generated
       THEN /\ total_generated' = wk[w].reg + 1
            /\ UNCHANGED total_skipped
       ELSE /\ total_skipped' = wk[w].reg + 1
            /\ UNCHANGED total_generated
    /\ wk' = [wk EXCEPT ![w] = [@ EXCEPT !.pc = "add_result", !.reg = 0]]
    /\ UNCHANGED <<store_vars, main_pc, main_k, entity_queue, active_llm_workers>>
    /\ UNCHANGED <<scan_vars, tracker_vars, log_vars>>

\* The GenerationResult that generate_description returned to the worker.
Result(x) ==
    [file_path |-> x.ewc.file_path, k |-> x.ewc.k, language |-> x.ewc.language,
     description |-> x.description, was_generated |-> x.was_generated]

\* FileCompletionTracker.add_result, under the tracker's lock: the result is
\* appended, the file's pending count decremented, a module result's
\* description kept; returns whether the count is now zero.
WorkerAddResult(w) ==
    /\ wk[w].pc = "add_result"
    /\ LET result == Result(wk[w])
           file_path == result.file_path
       IN /\ results_per_file' =
                [results_per_file EXCEPT ![file_path] = Append(@, result)]
          /\ pending_per_file' = [pending_per_file EXCEPT ![file_path] = @ - 1]
          /\ module_descriptions' =
                IF Entity(result).scope = MODULE_SCOPE
                THEN [module_descriptions EXCEPT ![file_path] = result.description]
                ELSE module_descriptions
          /\ wk' = [wk EXCEPT ![w] =
                       [@ EXCEPT !.pc = IF pending_per_file[file_path] - 1 = 0
                                        THEN "file_complete" ELSE "finally"]]
    /\ UNCHANGED <<store_vars, main_pc, main_k, entity_queue, active_llm_workers>>
    /\ UNCHANGED <<scan_vars, count_vars, log_vars>>

\* llm_worker after add_result returned True: get_file_results hands out the
\* tracker's own list, get_module_description reads the module description.
WorkerFileComplete(w) ==
    /\ wk[w].pc = "file_complete"
    /\ wk' = [wk EXCEPT ![w] =
                 [@ EXCEPT !.pc = "write",
                           !.module_desc = module_descriptions[wk[w].ewc.file_path]]]
    /\ UNCHANGED <<store_vars, main_pc, main_k, entity_queue, active_llm_workers>>
    /\ UNCHANGED <<scan_vars, tracker_vars, count_vars, log_vars>>

\* Faulty variant: the module result is not filtered out of the pairs.
EntityDescPairs_KeepModule(results) ==
    [n \in 1..Len(results) |->
        [file_path |-> results[n].file_path, k |-> results[n].k,
         description |-> results[n].description]]

\* entity_desc_pairs: the results of the file that are not the module entity,
\* as (entity, description) pairs; the entity is named by its file and position.
EntityDescPairs(results) ==
    LET NotModule(r) == Entity(r).scope # MODULE_SCOPE
        kept == SelectSeq(results, NotModule)
    IN [n \in 1..Len(kept) |->
           [file_path |-> kept[n].file_path, k |-> kept[n].k,
            description |-> kept[n].description]]

\* llm_worker: the pairs are built from the results list and write_lod_file is
\* called when there is a pair or a module description.
WorkerWriteLod(w) ==
    /\ wk[w].pc = "write"
    /\ LET file_path == wk[w].ewc.file_path
           entity_desc_pairs == EntityDescPairs(results_per_file[file_path])
       IN lod_writes' =
            IF entity_desc_pairs # <<>> \/ wk[w].module_desc # None
            THEN [lod_writes EXCEPT ![file_path] =
                     Append(@, [entity_desc_pairs |-> entity_desc_pairs,
                                language |-> file_languages[file_path],
                                module_desc |-> wk[w].module_desc,
                                n_results |-> Len(results_per_file[file_path])])]
            ELSE lod_writes
    /\ wk' = [wk EXCEPT ![w] = [@ EXCEPT !.pc = "finally"]]
    /\ UNCHANGED <<store_vars, main_pc, main_k, entity_queue, active_llm_workers,
                   gen_calls, dropped>>
    /\ UNCHANGED <<scan_vars, tracker_vars, count_vars>>

\* Faulty variant: the worker does not go back to entity_queue.get().
WorkerFinally_NoLoop(w) ==
    /\ wk[w].pc = "finally"
    /\ active_llm_workers' = active_llm_workers - 1
    /\ wk' = [wk EXCEPT ![w] = IdleWorker]
    /\ UNCHANGED <<store_vars, main_pc, main_k, entity_queue>>
    /\ UNCHANGED <<scan_vars, tracker_vars, count_vars, log_vars>>

\* llm_worker's finally block and entity_queue.task_done(): the worker goes
\* back to entity_queue.get().
WorkerFinally(w) ==
    /\ wk[w].pc = "finally"
    /\ active_llm_workers' = active_llm_workers - 1
    /\ wk' = [wk EXCEPT ![w] = [IdleWorker EXCEPT !.pc = "get"]]
    /\ UNCHANGED <<store_vars, main_pc, main_k, entity_queue>>
    /\ UNCHANGED <<scan_vars, tracker_vars, count_vars, log_vars>>

\* ------------------------------------------------------------------ main thread

\* Faulty variant: the sentinels are put without waiting for the scanner pool.
AllScanned_Eager == TRUE

\* The scanner pool's with block has exited: every scan_with_tracking task is over.
AllScanned == \A i \in Tasks : sc[i].pc = "done"
AllExited == \A w \in Workers : wk[w].pc = "exited"

\* After the scanner pool has shut down: entity_queue.put(None), once per
\* worker, inside the first worker pool's with block.
MainPutSentinel1 ==
    /\ main_pc = "scanning"
    /\ AllScanned
    /\ entity_queue' = Append(entity_queue, Sentinel)
    /\ main_k' = IF main_k + 1 = MaxParallelism THEN 0 ELSE main_k + 1
    /\ main_pc' = IF main_k + 1 = MaxParallelism THEN "join1" ELSE "scanning"
    /\ UNCHANGED <<store_vars, wk, active_llm_workers>>
    /\ UNCHANGED <<scan_vars, tracker_vars, count_vars, log_vars>>

\* Faulty variant: the second loop puts one sentinel more than there are workers.
MainPutSentinel2_OneMore ==
    /\ main_pc = "join1"
    /\ AllExited
    /\ entity_queue' = Append(entity_queue, Sentinel)
    /\ main_k' = IF main_k = MaxParallelism THEN 0 ELSE main_k + 1
    /\ main_pc' = IF main_k = MaxParallelism THEN "phase2" ELSE "join1"
    /\ UNCHANGED <<store_vars, wk, active_llm_workers>>
    /\ UNCHANGED <<scan_vars, tracker_vars, count_vars, log_vars>>

\* After the first worker pool has shut down: entity_queue.put(None) again,
\* once per worker.
MainPutSentinel2 ==
    /\ main_pc = "join1"
    /\ AllExited
    /\ entity_queue' = Append(entity_queue, Sentinel)
    /\ main_k' = IF main_k + 1 = MaxParallelism THEN 0 ELSE main_k + 1
    /\ main_pc' = IF main_k + 1 = MaxParallelism THEN "phase2" ELSE "join1"
    /\ UNCHANGED <<store_vars, wk, active_llm_workers>>
    /\ UNCHANGED <<scan_vars, tracker_vars, count_vars, log_vars>>

\* "Phase 2": active_llm_workers reset, a second pool of max_parallelism
\* llm_worker threads started.
MainStartPhase2 ==
    /\ main_pc = "phase2"
    /\ active_llm_workers' = 0
    /\ wk' = [w \in Workers |-> [IdleWorker EXCEPT !.pc = "get"]]
    /\ main_pc' = "join2"
    /\ UNCHANGED <<store_vars, main_k, entity_queue>>
    /\ UNCHANGED <<scan_vars, tracker_vars, count_vars, log_vars>>

\* The second pool has shut down: return total_generated, total_skipped.
PipelineReturn ==
    /\ main_pc = "join2"
    /\ AllExited
    /\ main_pc' = "done"
    /\ UNCHANGED <<store_vars, main_k, entity_queue, wk, active_llm_workers>>
    /\ UNCHANGED <<scan_vars, tracker_vars, count_vars, log_vars>>

\* The caller has the returned counts; the locals of the call are gone.
BetweenRuns ==
    /\ main_pc = "done"
    /\ main_pc' = "idle"
    /\ wk' = [w \in Workers |-> IdleWorker]
    /\ main_k' = 0
    /\ sc' = [i \in Tasks |-> IdleScanner]
    /\ entity_queue' = <<>>
    /\ file_languages' = [p \in Paths |-> None]
    /\ file_entity_counts' = [p \in Paths |-> 0]
    /\ pending_per_file' = [p \in Paths |-> 0]
    /\ results_per_file' = [p \in Paths |-> <<>>]
    /\ module_descriptions' = [p \in Paths |-> None]
    /\ total_generated' = 0
    /\ total_skipped' = 0
    /\ active_scanners' = 0
    /\ files_scanned' = 0
    /\ active_llm_workers' = 0
    /\ lod_writes' = [p \in Paths |-> <<>>]
    /\ gen_calls' = [x \in ItemIds |-> 0]
    /\ dropped' = {}
    /\ UNCHANGED store_vars

\* The step leaves the ProgressCounter alone.
Silent == UNCHANGED progress_vars

\* The pipeline without its progress display: no ProgressCounter call is made
\* (ProgressCounter._files_scanned apart, which follows the finally block).
Next ==
    \/ \E h \in Hashes : MarkStale(h) /\ Silent
    \/ \E f \in BOOLEAN : StartRun(f) /\ Silent
    \/ \E i \in Tasks : ScanStart(i) /\ Silent
    \/ \E i \in Tasks : ScanFile(i) /\ Silent
    \/ \E i \in Tasks : ScanRegister(i) /\ Silent
    \/ \E i \in Tasks : ScanPut(i) /\ Silent
    \/ \E i \in Tasks : ScanFinally(i) /\ Silent
    \/ \E w \in Workers : WorkerGet(w) /\ Silent
    \/ \E w \in Workers : WorkerCached(w) /\ Silent
    \/ \E w \in Workers : WorkerGenerate(w) /\ Silent
    \/ \E w \in Workers : WorkerSetGet(w) /\ Silent
    \/ \E w \in Workers : WorkerSetWrite(w) /\ Silent
    \/ \E w \in Workers : WorkerCountRead(w) /\ Silent
    \/ \E w \in Workers : WorkerCountWrite(w) /\ Silent
    \/ \E w \in Workers : WorkerAddResult(w) /\ Silent
    \/ \E w \in Workers : WorkerFileComplete(w) /\ Silent
    \/ \E w \in Workers : WorkerWriteLod(w) /\ Silent
    \/ \E w \in Workers : WorkerFinally(w) /\ Silent
    \/ MainPutSentinel1 /\ Silent
    \/ MainPutSentinel2 /\ Silent
    \/ MainStartPhase2 /\ Silent
    \/ PipelineReturn /\ Silent
    \/ BetweenRuns /\ Silent

Spec == Init /\ [][Next]_vars

\* One scan_with_tracking task, one llm_worker thread, the calling thread.
ScannerStep(i) ==
    ScanStart(i) \/ ScanFile(i) \/ ScanRegister(i) \/ ScanPut(i) \/ ScanFinally(i)

WorkerStep(w) ==
    \/ WorkerGet(w) \/ WorkerCached(w) \/ WorkerGenerate(w)
    \/ WorkerSetGet(w) \/ WorkerSetWrite(w)
    \/ WorkerCountRead(w) \/ WorkerCountWrite(w)
    \/ WorkerAddResult(w) \/ WorkerFileComplete(w) \/ WorkerWriteLod(w)
    \/ WorkerFinally(w)

MainStep ==
    MainPutSentinel1 \/ MainPutSentinel2 \/ MainStartPhase2 \/ PipelineReturn

\* Every thread that can take a step is eventually scheduled, and every
\* generator, store and writer call returns.
Fairness ==
    /\ \A i \in Tasks : WF_vars(ScannerStep(i) /\ Silent)
    /\ \A w \in Workers : WF_vars(WorkerStep(w) /\ Silent)
    /\ WF_vars(MainStep /\ Silent)

\* Number of pipeline_generate runs followed to their return under Fairness.
MaxLiveRuns == 1

LiveNext == Next /\ run' <= MaxLiveRuns

LiveSpec == Init /\ [][LiveNext]_vars /\ Fairness

\* ------------------------------------------------------------------ store calls

\* Latest value of datetime.utcnow() followed.
MaxClock == 2

\* The hashes and descriptions the store is called with on its own.
StoreHashes == {"h1", "h2"}
StoreDescriptions == {"d1", "d2"}

\* The log entry of a HashIndex call.
Call(op, hash_, description, stale) ==
    LET c == [op |-> op, hash |-> hash_, description |-> description, stale |-> stale]
    IN [op |-> op, hash |-> hash_, description |-> description, stale |-> stale,
        times |-> IF [x \in DOMAIN c |-> last_op[x]] = c THEN 2 ELSE 1]

pipeline_vars == <<run_vars, progress_vars>>

\* Time passes between two calls.
Tick ==
    /\ now < MaxClock
    /\ now' = now + 1
    /\ UNCHANGED <<config, unreadable, unrecognized, linked, call_vars, last_op, table, run, force, prev_force, table0>>
    /\ UNCHANGED pipeline_vars

\* A HashIndex call made while no pipeline runs; tbl is the table it leaves.
StoreCall(call, tbl) ==
    /\ main_pc = "idle"
    /\ run = 0
    /\ table' = tbl
    /\ last_op' = call
    /\ UNCHANGED <<config, unreadable, unrecognized, linked, call_vars, now, run, force, prev_force, table0>>
    /\ UNCHANGED pipeline_vars

\* HashIndex.set(hash_, description, stale)
StoreSet(h, d, st) ==
    StoreCall(Call("set", h, d, st), HashIndex_set(table, h, d, st, now))

\* HashIndex.mark_stale(hash_)
StoreMarkStale(h) ==
    StoreCall(Call("mark_stale", h, None, FALSE), HashIndex_mark_stale(table, h, now))

\* HashIndex.mark_fresh(hash_)
StoreMarkFresh(h) ==
    StoreCall(Call("mark_fresh", h, None, FALSE), HashIndex_mark_fresh(table, h, now))

\* HashIndex.delete(hash_)
StoreDelete(h) ==
    StoreCall(Call("delete", h, None, FALSE), HashIndex_delete(table, h))

StoreNext ==
    \/ Tick
    \/ \E h \in StoreHashes, d \in StoreDescriptions, st \in BOOLEAN : StoreSet(h, d, st)
    \/ \E h \in StoreHashes : StoreMarkStale(h)
    \/ \E h \in StoreHashes : StoreMarkFresh(h)
    \/ \E h \in StoreHashes : StoreDelete(h)

\* An empty store and no pipeline run.
StoreInit ==
    /\ Init
    /\ unreadable = {}
    /\ unrecognized = {}
    /\ DOMAIN config.model_settings = {}

StoreSpec == StoreInit /\ [][StoreNext]_vars

\* ------------------------------------------------------------------ properties

RECURSIVE SumOver(_, _)
SumOver(f, S) ==
    IF S = {} THEN 0
    ELSE LET x == CHOOSE y \in S : TRUE IN f[x] + SumOver(f, S \ {x})

HashOf(id) == ParseFile(files[id[1]])[id[2]].ast_hash
PathOf(id) == files[id[1]]

\* The input files that scan_file can parse, their work items and their hashes.
Readable == Paths \ (unreadable \cup unrecognized)
ReadableItemIds == {id \in ItemIds : PathOf(id) \in Readable}
ReadableHashes == {HashOf(id) : id \in ReadableItemIds}

\* Number of entities of the file set.
NumEntities ==
    SumOver([i \in Tasks |-> IF files[i] \in Readable THEN Len(ParseFile(files[i])) ELSE 0],
            Tasks)

\* Number of results handed to the completion tracker with the given flag.
NumResults(flag) ==
    LET WithFlag(r) == r.was_generated = flag
    IN SumOver([p \in Paths |-> Len(SelectSeq(results_per_file[p], WithFlag))], Paths)

HasResult(id, flag) ==
    \E n \in 1..Len(results_per_file[PathOf(id)]) :
        /\ results_per_file[PathOf(id)][n].k = id[2]
        /\ results_per_file[PathOf(id)][n].was_generated = flag

Rows(h) == {r \in table : r.hash = h}
Stale0 == {r.hash : r \in {x \in table0 : x.stale}}
Complete0 == \A h \in ReadableHashes : \E r \in table0 : r.hash = h

\* C1: every file is handed to write_lod_file exactly once per run, and only
\* when all K results of the file are in the completion tracker.
C1_WrittenExactlyOnceAfterAllResults ==
    \A p \in Readable :
        /\ Len(lod_writes[p]) <= 1
        /\ \A n \in 1..Len(lod_writes[p]) :
               lod_writes[p][n].n_results = Len(ParseFile(p))
        /\ main_pc = "done" => Len(lod_writes[p]) = 1

\* C2: a file with a dropped entity still has its pending count brought to
\* zero and is written from the remaining results by the time the run returns.
C2_DroppedEntityStillDecrements ==
    main_pc = "done" =>
        \A d \in dropped :
            /\ pending_per_file[PathOf(d.item)] = 0
            /\ Len(lod_writes[PathOf(d.item)]) >= 1

\* C3: on return generated_count is the number of results produced with
\* was_generated=true and skipped_count the number with was_generated=false.
C3_CountsMatchResults ==
    main_pc = "done" =>
        /\ total_generated = NumResults(TRUE)
        /\ total_skipped = NumResults(FALSE)

\* C4: concurrent HashIndex.set calls for one hash all complete without an
\* error, and once a call has completed the hash has a fresh record.
C4_SetCallsSerialized ==
    /\ \A d \in dropped : d.error # "IntegrityError"
    /\ \A w \in Workers :
           wk[w].was_generated => Rows(Entity(wk[w].ewc).ast_hash) # {}

\* C5 as stated: with force=false the generator is called at most once per
\* content hash in a run.
C5_AtMostOneCallPerHash ==
    ~force =>
        \A h \in Hashes :
            SumOver(gen_calls, {id \in ItemIds : HashOf(id) = h}) <= 1

\* C5 as amended: with force=false the generator is called at most once per
\* work item, and never for a work item whose record was fresh when the run
\* started; entities that share a hash may each get a call.
C5_AtMostOneCallPerWorkItem ==
    ~force =>
        \A id \in ItemIds :
            /\ gen_calls[id] <= 1
            /\ gen_calls[id] = 1 => NeedsGeneration(FALSE, table0, HashOf(id))

\* Two work items of one hash have both been given to the generator.
C5_Witness ==
    /\ ~force
    /\ \E id1, id2 \in ItemIds :
           /\ id1 # id2
           /\ HashOf(id1) = HashOf(id2)
           /\ gen_calls[id1] = 1
           /\ gen_calls[id2] = 1

\* C6: after a run with force=false the store holds exactly one record for
\* each hash of the file set, and the record is fresh.
C6_OneFreshRecordPerHash ==
    (main_pc = "done" /\ ~force) =>
        \A h \in ReadableHashes :
            /\ Cardinality(Rows(h)) = 1
            /\ \A r \in Rows(h) : ~r.stale

\* C7: the second of two runs with force=false on the unchanged file set
\* returns generated_count = 0 and skipped_count = the number of entities.
C7_SecondRunSkipsAll ==
    (main_pc = "done" /\ run = 2 /\ ~prev_force /\ ~force /\ Stale0 = {}) =>
        /\ total_generated = 0
        /\ total_skipped = NumEntities

\* C8 as stated: in a run with force=false that follows a complete run and
\* the marking of exactly one record as stale, every entity whose hash is that
\* record's hash is regenerated and every other entity is skipped.
C8_OnlyStaleEntityRegenerated ==
    (run >= 2 /\ ~force /\ Complete0 /\ Cardinality(Stale0) = 1) =>
        \A id \in ReadableItemIds :
            /\ gen_calls[id] <= 1
            /\ gen_calls[id] = 1 => HashOf(id) \in Stale0
            /\ main_pc = "done" =>
                   IF HashOf(id) \in Stale0
                   THEN gen_calls[id] = 1 /\ HasResult(id, TRUE)
                   ELSE gen_calls[id] = 0 /\ HasResult(id, FALSE)

\* C8 as amended: in such a run the generator is called only for entities
\* whose hash is the marked record's hash, at most once each and for at least
\* one of them (for the entity itself when no other entity shares its hash);
\* every entity of any other hash is skipped.  An entity that shares the
\* marked hash is skipped too when another one's regeneration was stored
\* before it was scanned.
C8_OnlyStaleHashRegenerated ==
    (run >= 2 /\ ~force /\ Complete0 /\ Cardinality(Stale0) = 1) =>
        /\ \A id \in ReadableItemIds :
               /\ gen_calls[id] <= 1
               /\ gen_calls[id] = 1 => HashOf(id) \in Stale0
               /\ main_pc = "done" =>
                      IF HashOf(id) \in Stale0
                      THEN HasResult(id, gen_calls[id] = 1)
                      ELSE gen_calls[id] = 0 /\ HasResult(id, FALSE)
        /\ main_pc = "done" =>
               \E id \in ItemIds : HashOf(id) \in Stale0 /\ gen_calls[id] = 1

\* The rerun after one mark_stale has returned, having regenerated something.
C8_Witness ==
    /\ run >= 2 /\ ~force /\ Complete0 /\ Cardinality(Stale0) = 1
    /\ main_pc = "done"
    /\ \E id \in ItemIds : gen_calls[id] = 1 /\ HasResult(id, TRUE)
    /\ \E id \in ItemIds : gen_calls[id] = 0 /\ HasResult(id, FALSE)

\* Every work item that exists in the run: built by a scanner, queued, or held
\* by a worker.
LiveItems ==
    ( UNION {{sc[i].entities_with_context[n] :
                 n \in 1..Len(sc[i].entities_with_context)} : i \in Tasks}
      \cup {entity_queue[n] : n \in 1..Len(entity_queue)}
      \cup {wk[w].ewc : w \in Workers} ) \ {Sentinel}

\* C9: with force=true every work item has needs_generation=true, no result
\* is a skip, and skipped_count stays 0 up to the return.
C9_ForceSkipsNothing ==
    force =>
        /\ \A ewc \in LiveItems : ewc.needs_generation
        /\ NumResults(FALSE) = 0
        /\ total_skipped = 0

\* A forced run over a store that had a fresh record for every hash has
\* returned.
C9_Witness ==
    /\ force
    /\ main_pc = "done"
    /\ Complete0 /\ Stale0 = {}
    /\ total_generated > 0
    /\ total_skipped = 0

\* C10: the scanner sets needs_generation = force or record absent or record
\* stale from the store as it is at that lookup, and the worker that dequeues
\* the item calls the generator exactly when the flag is set, whatever the
\* store says by then.
C10_DecidedOnceAtScan ==
    [][ /\ \A i \in Tasks :
              Len(sc'[i].entities_with_context) = Len(sc[i].entities_with_context) + 1 =>
                  LET ewc == sc'[i].entities_with_context[Len(sc'[i].entities_with_context)]
                      record == HashIndex_get(table, Entity(ewc).ast_hash)
                  IN ewc.needs_generation = (force \/ record = NoRecord \/ record.stale)
        /\ \A w \in Workers :
              (wk[w].pc = "generate_description" /\ wk'[w].pc # "generate_description") =>
                  /\ (gen_calls' # gen_calls) = wk[w].ewc.needs_generation
                  /\ (wk'[w].pc = "count") = ~wk[w].ewc.needs_generation
      ]_vars

\* A worker has called the generator for a work item whose hash has a fresh
\* record by now: the decision taken at scan time was not looked at again.
C10_Witness ==
    /\ ~force
    /\ \E w \in Workers :
           /\ wk[w].pc = "set_get"
           /\ \E r \in Rows(Entity(wk[w].ewc).ast_hash) : ~r.stale

\* ------------------------------------------------------------------ C11..C20

IsSentinel(x) == x = Sentinel

\* C11: a sentinel is in the queue, or a worker has left its loop, only when
\* every scanner task is over (so every work item has been enqueued); no work
\* item waits behind a sentinel, and when a worker has left its loop after the
\* first round of sentinels no work item is waiting in the queue.
C11_NoSentinelBeforeScanDone ==
    /\ ( \/ \E n \in 1..Len(entity_queue) : IsSentinel(entity_queue[n])
         \/ \E w \in Workers : wk[w].pc = "exited" )
           => \A i \in Tasks : sc[i].pc = "done"
    /\ \A m, n \in 1..Len(entity_queue) :
           (m < n /\ IsSentinel(entity_queue[m])) => IsSentinel(entity_queue[n])
    /\ \A w \in Workers :
           wk[w].pc = "exited" =>
               \A n \in 1..Len(entity_queue) : IsSentinel(entity_queue[n])

\* A worker of the first pool has left its loop in a run that produced results.
C11_Witness ==
    /\ main_pc \in {"scanning", "join1"}
    /\ \E w \in Workers : wk[w].pc = "exited"
    /\ NumResults(TRUE) + NumResults(FALSE) > 0

\* Number of times a work item ended in a worker: with a result or dropped.
TimesProcessed(id) ==
    Cardinality({n \in 1..Len(results_per_file[PathOf(id)]) :
                    results_per_file[PathOf(id)][n].k = id[2]})
    + Cardinality({d \in dropped : d.item = id})

\* C12: a pipeline_generate call that has started returns; by then the queue
\* is empty, every worker has read a sentinel and left its loop, and every
\* work item was taken from the queue and processed by exactly one worker.
C12_PipelineTerminates ==
    /\ (main_pc = "scanning") ~> (main_pc = "done")
    /\ [](main_pc = "done" =>
              /\ entity_queue = <<>>
              /\ \A w \in Workers : wk[w].pc = "exited"
              /\ \A id \in ReadableItemIds : TimesProcessed(id) = 1)

\* A run has returned with every work item of a readable file set processed,
\* some by generation and some from the cache.
C12_Witness ==
    /\ main_pc = "done"
    /\ entity_queue = <<>>
    /\ unreadable = {}
    /\ \A id \in ItemIds : TimesProcessed(id) = 1
    /\ NumResults(TRUE) > 0
    /\ NumResults(FALSE) > 0

\* Positions of the entities of a file that are not its module entity.
NonModule(p) == {k \in 1..Len(ParseFile(p)) : ParseFile(p)[k].scope # MODULE_SCOPE}

Undisturbed == {p \in Readable : \A d \in dropped : PathOf(d.item) # p}

\* C14: a worker whose generate_description raised stays in its loop, the run
\* still returns, and by then every file without a dropped entity has all its
\* results and has been written.
C14_ExceptionDoesNotAbortRun ==
    /\ [][\A w \in Workers :
             (\E d \in dropped' \ dropped : d.item = ItemId(wk[w].ewc))
                 => wk'[w].pc \notin {"exited", "off"}]_vars
    /\ (dropped # {}) ~> (main_pc = "done")
    /\ [](main_pc = "done" =>
              \A p \in Undisturbed :
                  /\ Len(results_per_file[p]) = Len(ParseFile(p))
                  /\ Len(lod_writes[p]) = 1)

\* A run in which one file lost an entity to an exception has returned, and
\* the other file was written in full.
C14_Witness ==
    /\ main_pc = "done"
    /\ dropped # {}
    /\ \E p \in Undisturbed :
           Len(lod_writes[p]) = 1 /\ Len(results_per_file[p]) = Len(ParseFile(p))
    /\ \E p \in Readable : p \notin Undisturbed

\* The work item is in the queue, in a worker's hands, or already processed.
Enqueued(id) ==
    \/ \E n \in 1..Len(entity_queue) :
           ~IsSentinel(entity_queue[n]) /\ ItemId(entity_queue[n]) = id
    \/ \E w \in Workers : ~IsSentinel(wk[w].ewc) /\ ItemId(wk[w].ewc) = id
    \/ TimesProcessed(id) >= 1

\* C15: a file whose scan raises never has a work item and is never registered
\* (no language, no entity count, no pending count); once all scanner tasks are
\* over, every file, the failed one included, was counted as scanned and every
\* work item of every other file was put on the queue.
C15_FailedScanContributesNothing ==
    /\ \A i \in Tasks :
           ScanRaises(files[i]) =>
               /\ \A ewc \in LiveItems : ewc.src # i
               /\ sc[i].entities_with_context = <<>>
               /\ results_per_file[files[i]] = <<>>
               /\ file_languages[files[i]] = None
               /\ file_entity_counts[files[i]] = 0
               /\ pending_per_file[files[i]] = 0
               /\ lod_writes[files[i]] = <<>>
    /\ (\A i \in Tasks : sc[i].pc = "done") =>
           /\ files_scanned = Len(files)
           /\ \A i \in Tasks :
                  files[i] \in Readable =>
                      /\ file_entity_counts[files[i]] = Len(ParseFile(files[i]))
                      /\ \A k \in 1..Len(ParseFile(files[i])) : Enqueued(<<i, k>>)

\* The scan of b has failed, all scanner tasks are over, and the work items of
\* a are being processed.
C15_Witness ==
    /\ unreadable # {}
    /\ main_pc = "scanning"
    /\ \A i \in Tasks : sc[i].pc = "done"
    /\ files_scanned = Len(files)
    /\ \E n \in 1..Len(entity_queue) : ~IsSentinel(entity_queue[n])

FreshRecord(h) == \E r \in table : r.hash = h /\ ~r.stale

\* C17: the generator is called at most once for a work item; a worker that
\* got a description from it has stored a fresh record for the entity's hash
\* before it counts and adds the result, so every result with
\* was_generated=true in the tracker, and so every generated entity of a
\* written file, had exactly one generator call and has a fresh record.
C17_GenerateThenStoreThenAdd ==
    /\ \A id \in ItemIds : gen_calls[id] <= 1
    /\ \A w \in Workers :
           (wk[w].pc \in {"count", "count_write", "add_result"} /\ wk[w].was_generated) =>
               /\ wk[w].ewc.needs_generation
               /\ gen_calls[ItemId(wk[w].ewc)] = 1
               /\ FreshRecord(Entity(wk[w].ewc).ast_hash)
    /\ \A id \in ItemIds :
           HasResult(id, TRUE) => gen_calls[id] = 1 /\ FreshRecord(HashOf(id))
    /\ \A p \in Paths :
           Len(lod_writes[p]) >= 1 =>
               \A n \in 1..Len(results_per_file[p]) :
                   results_per_file[p][n].was_generated =>
                       FreshRecord(Entity(results_per_file[p][n]).ast_hash)

\* A file has been written whose entities were all generated in this run.
C17_Witness ==
    \E p \in Paths :
        /\ Len(lod_writes[p]) = 1
        /\ \A k \in 1..Len(ParseFile(p)) :
               \E i \in Tasks : files[i] = p /\ HasResult(<<i, k>>, TRUE)

\* The rows of a table for the hashes other than h.
Others(tbl, h) == {r \in tbl : r.hash # h}

\* The step is a HashIndex call of one of the given kinds.
StoreStep(ops) == last_op'.op \in ops /\ now' = now /\ <<table, last_op>>' # <<table, last_op>>

\* C18: HashIndex.set(h, d, s) leaves exactly one record for h, with description
\* d and stale flag s and updated_at = now; created_at is kept when a record
\* existed and equals updated_at when none did; the other records are untouched.
C18_SetIsUpsert ==
    [][StoreStep({"set"}) =>
          LET h == last_op'.hash
              old == HashIndex_get(table, h)
              new == HashIndex_get(table', h)
          IN /\ Cardinality({r \in table' : r.hash = h}) = 1
             /\ new.description = last_op'.description
             /\ new.stale = last_op'.stale
             /\ new.updated_at = now
             /\ new.created_at = (IF old # NoRecord THEN old.created_at ELSE new.updated_at)
             /\ Others(table', h) = Others(table, h)
      ]_vars

\* A record inserted at one time has been updated in place by set at a later
\* time, next to a record that set inserted.
C18_Witness ==
    /\ last_op.op = "set"
    /\ \E r \in table :
           /\ r.hash = last_op.hash
           /\ r.created_at < r.updated_at
           /\ r.updated_at = now
           /\ r.description = last_op.description
    /\ \E r \in table : r.hash # last_op.hash /\ r.created_at = r.updated_at

\* A table without its timestamps.
Core(tbl) == {[hash |-> r.hash, description |-> r.description, stale |-> r.stale] : r \in tbl}

\* C19: mark_stale(h) and mark_fresh(h) create and remove no record, touch no
\* record of another hash and leave h's description and created_at alone; the
\* record of h gets the flag the call names, so a call that repeats the one
\* before it changes neither flag nor description; with no record for h the
\* table is left exactly as it was.
C19_MarkIsIdempotent ==
    [][StoreStep({"mark_stale", "mark_fresh"}) =>
          LET h == last_op'.hash
              old == HashIndex_get(table, h)
              new == HashIndex_get(table', h)
          IN /\ {r.hash : r \in table'} = {r.hash : r \in table}
             /\ Others(table', h) = Others(table, h)
             /\ old = NoRecord => table' = table
             /\ old # NoRecord =>
                    /\ new.stale = (last_op'.op = "mark_stale")
                    /\ new.description = old.description
                    /\ new.created_at = old.created_at
             /\ last_op'.times = 2 => Core(table') = Core(table)
      ]_vars

\* mark_stale has just been called a second time in a row on a record, and
\* the store has no record for the other hash.
C19_Witness ==
    /\ last_op.op = "mark_stale"
    /\ last_op.times = 2
    /\ \E r \in table : r.hash = last_op.hash /\ r.stale /\ r.updated_at > r.created_at
    /\ \E h \in StoreHashes : HashIndex_get(table, h) = NoRecord

\* The hashes that have a record.
StoredHashes(tbl) == {r.hash : r \in tbl}

\* C20: no step of a pipeline run, and no mark_stale between runs, removes a
\* record: a hash that has a record before a step has one after it.
C20_RunNeverDeletes ==
    [][StoredHashes(table) \subseteq StoredHashes(table')]_vars

\* A worker of a later run has just overwritten a record that the run found
\* in the store.
C20_Witness ==
    /\ run >= 2
    /\ table0 # {}
    /\ \E w \in Workers :
           /\ wk[w].pc = "count"
           /\ wk[w].was_generated
           /\ wk[w].existing
           /\ Entity(wk[w].ewc).ast_hash \in StoredHashes(table0)
    /\ StoredHashes(table0) \subseteq StoredHashes(table)

\* ------------------------------------------------------------------ hashing.py

\* An entity's source text is a sequence of characters.
NL == "\n"
SPACE == " "
TAB == "\t"
HASH == "#"
DQUOTE == "\""
SQUOTE == "'"
BACKSLASH == "\\"

\* Longest source text that is hashed.
MaxLen == 5

\* The characters source texts are made of; "a" stands for any other character.
Alphabet == {"a", SPACE, NL, HASH, DQUOTE, SQUOTE, BACKSLASH}

Sources == UNION {[1..n -> Alphabet] : n \in 0..MaxLen}

\* s[i:] of a sequence, i counted from 1.
Tail_(s, i) == SubSeq(s, i, Len(s))

\* source.split("\n")
RECURSIVE Split(_)
Split(s) ==
    IF \E i \in 1..Len(s) : s[i] = NL
    THEN LET i == CHOOSE i \in 1..Len(s) : s[i] = NL /\ \A j \in 1..(i - 1) : s[j] # NL
         IN <<SubSeq(s, 1, i - 1)>> \o Split(Tail_(s, i + 1))
    ELSE <<s>>

\* "\n".join(cleaned_lines)
RECURSIVE Join(_)
Join(lines) ==
    IF lines = <<>> THEN <<>>
    ELSE IF Len(lines) = 1 THEN lines[1]
    ELSE lines[1] \o <<NL>> \o Join(Tail(lines))

\* The scan of one line for the start of its comment: the loop body at character
\* i with the in_string and quote_char left by the characters before it.  The
\* result is the index of the "#" (counted from 1), 0 where the code has -1.
RECURSIVE CommentStart(_, _, _, _)
CommentStart(line, i, in_string, quote_char) ==
    IF i > Len(line) THEN 0
    ELSE LET char == line[i]
             quote == char \in {DQUOTE, SQUOTE} /\ (i = 1 \/ line[i - 1] # BACKSLASH)
             opens == quote /\ ~in_string
             closes == quote /\ in_string /\ char = quote_char
             in_string2 == IF opens THEN TRUE ELSE IF closes THEN FALSE ELSE in_string
             quote_char2 == IF opens THEN char ELSE IF closes THEN None ELSE quote_char
         IN IF ~in_string2 /\ char = HASH THEN i
            ELSE CommentStart(line, i + 1, in_string2, quote_char2)

\* line[:comment_start] when a comment was found
StripComment(line) ==
    LET comment_start == CommentStart(line, 1, FALSE, None)
    IN IF comment_start >= 1 THEN SubSeq(line, 1, comment_start - 1) ELSE line

\* str.rstrip(): trailing whitespace removed.
Whitespace == {SPACE, TAB, NL, "\r", "\f"}

RECURSIVE Rstrip(_)
Rstrip(line) ==
    IF line # <<>> /\ line[Len(line)] \in Whitespace
    THEN Rstrip(SubSeq(line, 1, Len(line) - 1))
    ELSE line

\* The for loop over the lines: a line is appended when it is not empty, or when
\* something was appended before it and the last line appended is not empty.
RECURSIVE CleanLines(_, _)
CleanLines(lines, cleaned_lines) ==
    IF lines = <<>> THEN cleaned_lines
    ELSE LET line == Rstrip(StripComment(lines[1]))
         IN IF line # <<>>
               \/ (cleaned_lines # <<>> /\ cleaned_lines[Len(cleaned_lines)] # <<>>)
            THEN CleanLines(Tail(lines), Append(cleaned_lines, line))
            ELSE CleanLines(Tail(lines), cleaned_lines)

\* re.sub(r" +", " ", result): every run of spaces becomes one space.
RECURSIVE CollapseSpaces(_)
CollapseSpaces(s) ==
    IF s = <<>> THEN <<>>
    ELSE IF s[1] = SPACE /\ Len(s) >= 2 /\ s[2] = SPACE THEN CollapseSpaces(Tail(s))
    ELSE <<s[1]>> \o CollapseSpaces(Tail(s))

normalize_source(src) == CollapseSpaces(Join(CleanLines(Split(src), <<>>)))

\* SHA-256 of the normalized text, tagged: the digest is taken to be free of
\* collisions, so it is represented by the text it was computed from.
compute_ast_hash(src) == <<"sha256", normalize_source(src)>>

\* ------------------------------------------------- source texts and their edits

\* The lexical class of every character of a line of Python source that starts
\* outside a string literal: "code", "str" (a string literal, its quotes
\* included; a backslash inside it escapes the character after it) or "comment"
\* (from the first "#" outside a string literal to the end of the line).  open
\* tells whether the line ends inside a string literal.
RECURSIVE Lex(_, _, _, _, _)
Lex(line, i, quote, escaped, classes) ==
    IF i > Len(line) THEN [classes |-> classes, open |-> quote # None]
    ELSE LET char == line[i]
         IN IF quote = None
            THEN IF char = HASH
                 THEN [classes |-> classes \o [j \in 1..(Len(line) - i + 1) |-> "comment"],
                       open |-> FALSE]
                 ELSE IF char \in {DQUOTE, SQUOTE}
                 THEN Lex(line, i + 1, char, FALSE, Append(classes, "str"))
                 ELSE Lex(line, i + 1, None, FALSE, Append(classes, "code"))
            ELSE IF escaped
                 THEN Lex(line, i + 1, quote, FALSE, Append(classes, "str"))
                 ELSE IF char = BACKSLASH
                 THEN Lex(line, i + 1, quote, TRUE, Append(classes, "str"))
                 ELSE IF char = quote
                 THEN Lex(line, i + 1, None, FALSE, Append(classes, "str"))
                 ELSE Lex(line, i + 1, quote, FALSE, Append(classes, "str"))

Classes(line) == Lex(line, 1, None, FALSE, <<>>).classes

\* A line of an entity's source: every string literal is closed on the line it
\* starts on, and a backslash occurs only inside a string literal or a comment.
LexValid(line) ==
    /\ ~Lex(line, 1, None, FALSE, <<>>).open
    /\ \A i \in 1..Len(line) : line[i] = BACKSLASH => Classes(line)[i] # "code"

WellFormed(src) == \A k \in 1..Len(Split(src)) : LexValid(Split(src)[k])

\* The index of the "#" that starts the comment of a line, 0 without a comment.
TrueCommentStart(line) ==
    IF \E i \in 1..Len(line) : Classes(line)[i] = "comment"
    THEN CHOOSE i \in 1..Len(line) :
            /\ Classes(line)[i] = "comment"
            /\ \A j \in 1..(i - 1) : Classes(line)[j] # "comment"
    ELSE 0

\* lines with one more line before line k (after the last line for k = Len + 1).
InsertLine(lines, k, line) ==
    SubSeq(lines, 1, k - 1) \o <<line>> \o Tail_(lines, k)

\* lines without line k.
DeleteLine(lines, k) == SubSeq(lines, 1, k - 1) \o Tail_(lines, k + 1)

\* A line is blank when it has nothing but spaces.
Blank(line) == \A i \in 1..Len(line) : line[i] = SPACE

\* The comment that is inserted: "#" followed by its text.
CommentText == <<HASH, "a">>

\* The number of spaces a line starts with.
RECURSIVE Indentation(_)
Indentation(line) ==
    IF line # <<>> /\ line[1] = SPACE THEN 1 + Indentation(Tail(line)) ELSE 0

\* Re-indentation with an indentation unit twice as wide.
Reindent(line) == [j \in 1..Indentation(line) |-> SPACE] \o line

\* A hashed source and one edit of it.
Edit(kind, text) ==
    /\ edit = None
    /\ WellFormed(source)
    /\ text # source
    /\ edit' = kind
    /\ edited' = text
    /\ UNCHANGED <<config, unreadable, unrecognized, linked, source, lookup, lock_vars, now,
                   last_op, table, run, force, prev_force, table0>>
    /\ UNCHANGED pipeline_vars

\* A blank line is added before line k, or after the last line.
AddBlankLine ==
    \E k \in 1..(Len(Split(source)) + 1) :
        Edit("add_blank", Join(InsertLine(Split(source), k, <<>>)))

\* A blank line is deleted.
DeleteBlankLine ==
    \E k \in 1..Len(Split(source)) :
        /\ Len(Split(source)) >= 2
        /\ Blank(Split(source)[k])
        /\ Edit("delete_blank", Join(DeleteLine(Split(source), k)))

\* A comment on a line of its own is inserted before line k, or after the last
\* line.  Removing it is the same pair of texts read the other way round.
AddCommentLine ==
    \E k \in 1..(Len(Split(source)) + 1) :
        Edit("comment_line", Join(InsertLine(Split(source), k, CommentText)))

\* A trailing comment is appended to line k.
AddTrailingComment ==
    \E k \in 1..Len(Split(source)) :
        Edit("trailing_comment",
             Join([Split(source) EXCEPT ![k] = @ \o <<SPACE>> \o CommentText]))

\* Every line is re-indented.
ReindentLines ==
    Edit("reindent", Join([k \in 1..Len(Split(source)) |-> Reindent(Split(source)[k])]))

\* One code token is changed: a character of an identifier or of a string
\* literal is replaced, or a string literal gets one more space next to a space
\* it contains.
ChangeToken ==
    \E k \in 1..Len(Split(source)) :
        LET line == Split(source)[k]
        IN \E i \in 1..Len(line) :
              /\ Classes(line)[i] # "comment"
              /\ \/ /\ line[i] = "a"
                    /\ Edit("token", Join([Split(source) EXCEPT ![k] = [line EXCEPT ![i] = "b"]]))
                 \/ /\ line[i] = SPACE
                    /\ Classes(line)[i] = "str"
                    /\ Edit("token",
                            Join([Split(source) EXCEPT
                                    ![k] = SubSeq(line, 1, i) \o <<SPACE>> \o Tail_(line, i + 1)]))

HashNext ==
    \/ AddBlankLine
    \/ DeleteBlankLine
    \/ AddCommentLine
    \/ AddTrailingComment
    \/ ReindentLines
    \/ ChangeToken

\* Any source text of at most MaxLen characters, not edited yet.
HashInit ==
    /\ config \in Configs
    /\ DOMAIN config.model_settings = {}
    /\ Idle
    /\ unreadable = {}
    /\ unrecognized = {}
    /\ linked = {}
    /\ lookup = NoLookup
    /\ lk_pc = [t \in LockThreads |-> 1]
    /\ lk_held = [t \in LockThreads |-> {}]
    /\ lk_queue = EmptyQueue
    /\ source \in Sources
    /\ edited = source
    /\ edit = None

HashSpec == HashInit /\ [][HashNext]_vars

SameHash == compute_ast_hash(source) = compute_ast_hash(edited)

\* C21: inserting or removing a comment (trailing or on a line of its own) and
\* re-indenting lines leave compute_ast_hash unchanged, and changing a single
\* code token changes it.
C21_HashIgnoresCommentsAndIndentation ==
    /\ edit \in {"comment_line", "trailing_comment", "reindent"} => SameHash
    /\ edit = "token" => ~SameHash

\* C22: neither deleting a blank line nor adding one, anywhere, changes
\* compute_ast_hash.
C22_HashIgnoresBlankLines ==
    edit \in {"add_blank", "delete_blank"} => SameHash

\* C23: on every line, the "#" at which the normalization cuts the line is the
\* "#" that starts the line's comment, and a line without a comment is not cut.
C23_CutsAtTheComment ==
    \A k \in 1..Len(Split(source)) :
        LET line == Split(source)[k]
        IN LexValid(line) => CommentStart(line, 1, FALSE, None) = TrueCommentStart(line)

\* C24: no step of scan_file (the language detection and parse, and every
\* iteration of its loop over the entities) changes the store, calls the
\* generator or writes an output file.
C24_ScanIsReadOnly ==
    [][\A i \in Tasks :
          (sc[i].pc \in {"queued", "scan_file"} /\ sc'[i] # sc[i]) =>
              /\ table' = table
              /\ gen_calls' = gen_calls
              /\ lod_writes' = lod_writes]_vars

\* scan_file is in its loop over the entities of a file on a store that has
\* records, and found the first entity's record fresh.
C24_Witness ==
    \E i \in Tasks :
        /\ sc[i].pc = "scan_file"
        /\ sc[i].k = 2
        /\ ~sc[i].entities_with_context[1].needs_generation
        /\ table # {}

\* C25: a file whose language is not recognised is scanned without an error
\* and contributes nothing: no work item, no registration (language, entity
\* count, pending count), no result, no output; a run that returns without a
\* dropped work item has counted every file as scanned and has written the
\* output of every other file once, with all of that file's entities.
C25_UnknownLanguageIsSkipped ==
    /\ \A i \in Tasks :
           files[i] \in unrecognized =>
               /\ sc[i].error = None
               /\ sc[i].pc \in {"queued", "finally", "done"}
               /\ sc[i].entities_with_context = <<>>
               /\ \A ewc \in LiveItems : ewc.src # i
               /\ file_languages[files[i]] = None
               /\ file_entity_counts[files[i]] = 0
               /\ pending_per_file[files[i]] = 0
               /\ results_per_file[files[i]] = <<>>
               /\ lod_writes[files[i]] = <<>>
    /\ (main_pc = "done" /\ dropped = {}) =>
           /\ files_scanned = Len(files)
           /\ \A p \in Readable :
                  /\ Len(lod_writes[p]) = 1
                  /\ lod_writes[p][1].n_results = Len(ParseFile(p))
                  /\ lod_writes[p][1].language = "python"

\* A run over a and b, b of an unknown language, has returned with the output of
\* a written and nothing dropped.
C25_Witness ==
    /\ unrecognized = {"b"}
    /\ main_pc = "done"
    /\ dropped = {}
    /\ sc[2].pc = "done"
    /\ lod_writes["a"] # <<>>
    /\ lod_writes["b"] = <<>>

\* ------------------------------------------------------------------ config.py

\* The providers with model settings and the providers that are looked up.
SettingsProviders == {"openai", "anthropic"}
LookupProviders == {"openai", "anthropic", "mock"}

\* The scopes that are looked up; None asks for the provider's default.
LookupScopes == {None, "function", "class", "module"}

\* ModelConfig objects: each field None (never set), or the string given to
\* "config-set-model <provider> <scope> <model>", which may be empty.
ModelConfigs ==
    { [NoModels EXCEPT !.default = d, !.function = f, !.class_ = c] :
        d \in {None, "", "m0"}, f \in {None, "", "m1"}, c \in {None, "m2"} }

\* Config objects with model settings for any set of providers.
ModelSettings ==
    UNION { [ps -> ModelConfigs] : ps \in SUBSET SettingsProviders }

\* get_model_for_scope(config, provider, scope) is called.
Lookup(provider, scope) ==
    /\ lookup' = [provider |-> provider, scope |-> scope,
                  result |-> get_model_for_scope(config, provider, scope)]
    /\ UNCHANGED <<config, unreadable, unrecognized, linked, source, edited, edit, lock_vars,
                   now, last_op, table, run, force, prev_force, table0>>
    /\ UNCHANGED pipeline_vars

ModelNext == \E provider \in LookupProviders, scope \in LookupScopes : Lookup(provider, scope)

\* Any configuration, nothing looked up yet.
ModelInit ==
    /\ \E ms \in ModelSettings : config = [provider |-> "mock", model_settings |-> ms]
    /\ Idle
    /\ unreadable = {}
    /\ unrecognized = {}
    /\ linked = {}
    /\ source = <<>>
    /\ edited = <<>>
    /\ edit = None
    /\ lookup = NoLookup
    /\ lk_pc = [t \in LockThreads |-> 1]
    /\ lk_held = [t \in LockThreads |-> {}]
    /\ lk_queue = EmptyQueue

ModelSpec == ModelInit /\ [][ModelNext]_vars

\* The field of a ModelConfig that belongs to a scope.
ScopeField(model_config, scope) ==
    CASE scope = "project" -> model_config.project
      [] scope = "package" -> model_config.package
      [] scope = "module" -> model_config.module
      [] scope = "class" -> model_config.class_
      [] scope = "function" -> model_config.function

\* The configurations that agree with config on one provider's settings.
SameSettingsFor(provider) ==
    { [provider |-> "mock", model_settings |-> ms] : ms \in
        { ms \in ModelSettings :
            /\ provider \in DOMAIN ms <=> provider \in DOMAIN config.model_settings
            /\ provider \in DOMAIN ms => ms[provider] = config.model_settings[provider] } }

\* The result of the last lookup, given which values count as a model being set.
ModelForScopeIs(unset) ==
    lookup # NoLookup =>
        LET provider == lookup.provider
            scope == lookup.scope
            result == lookup.result
        IN /\ provider \notin DOMAIN config.model_settings => result = None
           /\ provider \in DOMAIN config.model_settings =>
                  LET model_config == config.model_settings[provider]
                  IN /\ scope = None => result = model_config.default
                     /\ scope # None =>
                            IF ScopeField(model_config, scope) \notin unset
                            THEN result = ScopeField(model_config, scope)
                            ELSE IF model_config.default \notin unset
                            THEN result = model_config.default
                            ELSE result = None
           /\ \A cfg \in SameSettingsFor(provider) :
                  get_model_for_scope(cfg, provider, scope) = result

C27_TrackerEntryDestroyedAfterWrite ==
    \A p \in Paths :
        ( /\ lod_writes[p] # <<>>
          /\ \A w \in Workers : wk[w].ewc.file_path # p ) =>
            /\ results_per_file[p] = <<>>
            /\ module_descriptions[p] = None
            /\ pending_per_file[p] = 0

\* ------------------------------------------------------------------ lock steps

\* The step a thread is about to take.
Op(t) == Program(t)[lk_pc[t]]

Least(S) == CHOOSE n \in S : \A m \in S : n <= m
Greatest(S) == CHOOSE n \in S : \A m \in S : m <= n

\* Where a thread goes after its step.  entity_queue.get() returns a work
\* item when one waits and a sentinel otherwise; the loop over the work items
\* ends after MaxLockItems puts at the latest.
Targets(t) ==
    IF Op(t).to = {} THEN {lk_pc[t] + 1}
    ELSE IF Op(t).what = "get"
    THEN (IF lk_queue.items > 0 THEN {Least(Op(t).to)} ELSE {Greatest(Op(t).to)})
    ELSE IF Op(t).what = "next_entity" /\ lk_queue.put >= MaxLockItems
    THEN {Greatest(Op(t).to)}
    ELSE Op(t).to

\* entity_queue after the thread's step: put appends a work item, get takes
\* the head.
QueueAfter(t) ==
    IF Op(t).what = "put"
    THEN [lk_queue EXCEPT !.items = @ + 1, !.put = @ + 1]
    ELSE IF Op(t).what = "get"
    THEN (IF lk_queue.items > 0
          THEN [lk_queue EXCEPT !.items = @ - 1]
          ELSE [lk_queue EXCEPT !.sentinels = @ - 1])
    ELSE lk_queue

LockStep(t, held) ==
    /\ lk_held' = [lk_held EXCEPT ![t] = held]
    /\ \E n \in Targets(t) : lk_pc' = [lk_pc EXCEPT ![t] = n]
    /\ lk_queue' = QueueAfter(t)
    /\ UNCHANGED <<config, unreadable, unrecognized, linked, source, edited, edit, lookup, now,
                   last_op, table, run, force, prev_force, table0>>
    /\ UNCHANGED pipeline_vars

\* "with lock:" is entered.  threading.Lock is not reentrant; the lock made by
\* "with threading.Lock():" is a new object on every entry and is always free.
LockAcquire(t) ==
    /\ Op(t).op = "acquire"
    /\ Op(t).lock = "fresh_lock" \/ \A u \in LockThreads : Op(t).lock \notin lk_held[u]
    /\ LockStep(t, lk_held[t] \cup {Op(t).lock})

\* "with lock:" is left.
LockRelease(t) ==
    /\ Op(t).op = "release"
    /\ LockStep(t, lk_held[t] \ {Op(t).lock})

\* Any other step of the thread; entity_queue.get() waits while the queue is
\* empty.
LockDo(t) ==
    /\ Op(t).op = "do"
    /\ Op(t).what = "get" => lk_queue.items + lk_queue.sentinels > 0
    /\ LockStep(t, lk_held[t])

\* The main thread, after the scanner pool has shut down: entity_queue.put(None),
\* once per worker.
LockPutSentinel ==
    /\ \A t \in LockThreads : t[1] = "scanner" => Op(t).op = "end"
    /\ lk_queue.pushed < MaxLockWorkers
    /\ lk_queue' = [lk_queue EXCEPT !.sentinels = @ + 1, !.pushed = @ + 1]
    /\ UNCHANGED <<lk_pc, lk_held>>
    /\ UNCHANGED <<config, unreadable, unrecognized, linked, source, edited, edit, lookup, now,
                   last_op, table, run, force, prev_force, table0>>
    /\ UNCHANGED pipeline_vars

\* A step of one thread.
ThreadStep(t) == LockAcquire(t) \/ LockRelease(t) \/ LockDo(t)

LockNext ==
    \/ \E t \in LockThreads : LockAcquire(t)
    \/ \E t \in LockThreads : LockRelease(t)
    \/ \E t \in LockThreads : LockDo(t)
    \/ LockPutSentinel

\* An empty store and every thread at its entry.
LockInit ==
    /\ config \in Configs
    /\ DOMAIN config.model_settings = {}
    /\ Idle
    /\ unreadable = {}
    /\ unrecognized = {}
    /\ linked = {}
    /\ NoCalls

LockSpec == LockInit /\ [][LockNext]_vars

\* A thread waits for a lock when it is about to enter "with lock:".
WaitsFor(t, lock) == Op(t).op = "acquire" /\ Op(t).lock = lock

\* C28: a thread that holds the completion tracker's lock only updates or
\* reads the tracker's maps and then releases the lock: it makes no generator
\* call, no store access and no output write, and enters no other lock.
C28_TrackerSectionOnlyTouchesMaps ==
    \A t \in LockThreads :
        "tracker" \in lk_held[t] =>
            \/ Op(t).op = "release" /\ Op(t).lock = "tracker"
            \/ Op(t).op = "do" /\ Op(t).what \in {"tracker_maps", "tracker_read"}

\* A worker is inside add_result, holding the tracker's lock, while another
\* worker is about to call generate_description and the scanner is in its
\* finally block.
C28_Witness ==
    \E t \in LockThreads, u \in LockThreads :
        /\ "tracker" \in lk_held[t]
        /\ Op(t).what = "tracker_maps"
        /\ t[1] = "worker"
        /\ Op(u).what = "generate_description"
        /\ Op(<<"scanner", 1>>).what = "active_scanners"
        /\ lk_queue.put = MaxLockItems

\* C29: no thread holds the progress counter's lock and the completion
\* tracker's lock together, and no thread is about to enter one of them while
\* it holds the other.
C29_ProgressAndTrackerLocksIndependent ==
    \A t \in LockThreads :
        /\ ~({"progress", "tracker"} \subseteq lk_held[t])
        /\ WaitsFor(t, "progress") => "tracker" \notin lk_held[t]
        /\ WaitsFor(t, "tracker") => "progress" \notin lk_held[t]

\* One thread holds the tracker's lock, another holds the progress counter's
\* lock, and the third waits for the tracker's lock.
C29_Witness ==
    \E t \in LockThreads, u \in LockThreads, v \in LockThreads :
        /\ "tracker" \in lk_held[t]
        /\ "progress" \in lk_held[u]
        /\ WaitsFor(v, "tracker")
        /\ v # t

\* C30: generation does not wait for scanning.  The workers are started before
\* the first scanner task; a worker that waits at entity_queue.get() can take
\* the head of the queue whenever the queue is not empty, and a worker that
\* holds a work item can go on with it, whatever the scanner tasks are doing.
C30_GenerationDoesNotWaitForScanning ==
    /\ (\E i \in Tasks : sc[i].pc # "queued") => \A w \in Workers : wk[w].pc # "off"
    /\ \A w \in Workers :
           /\ (wk[w].pc = "get" /\ entity_queue # <<>>) => ENABLED WorkerGet(w)
           /\ wk[w].pc \notin {"off", "get", "exited"} => ENABLED WorkerStep(w)

\* A worker has generated the description of an entity of a while b has not
\* been scanned yet.
C30_Witness ==
    \E w \in Workers :
        /\ wk[w].pc = "set_get"
        /\ wk[w].ewc.file_path = "a"
        /\ gen_calls[ItemId(wk[w].ewc)] = 1
        /\ sc[2].pc = "queued"
        /\ "b" \notin unreadable \cup unrecognized

\* ------------------------------------------------------------------ ProgressCounter

\* ProgressCounter.increment_entities_discovered(count)
increment_entities_discovered(p, count) ==
    [p EXCEPT !.entities_discovered = @ + count]

\* ProgressCounter.increment_entities_to_generate(count)
increment_entities_to_generate(p, count) ==
    [p EXCEPT !.entities_to_generate = @ + count]

\* ProgressCounter.increment_descriptions_generated()
increment_descriptions_generated(p) ==
    [p EXCEPT !.descriptions_generated = @ + 1]

\* ProgressCounter.increment_lod_files_written()
increment_lod_files_written(p) ==
    [p EXCEPT !.lod_files_written = @ + 1]

\* ProgressCounter.set_active_scanners(count)
set_active_scanners(p, count) == [p EXCEPT !.active_scanners = count]

\* ProgressCounter.set_active_llm_workers(count)
set_active_llm_workers(p, count) == [p EXCEPT !.active_llm_workers = count]

\* A call of a ProgressCounter method, with its argument.
ProgressCall(method, count) == [method |-> method, count |-> count]

\* The ProgressCounter after a call; each method runs under the counter's lock.
AfterCall(p, call) ==
    CASE call.method = "increment_entities_discovered" ->
            increment_entities_discovered(p, call.count)
      [] call.method = "increment_entities_to_generate" ->
            increment_entities_to_generate(p, call.count)
      [] call.method = "increment_descriptions_generated" ->
            increment_descriptions_generated(p)
      [] call.method = "increment_lod_files_written" ->
            increment_lod_files_written(p)
      [] call.method = "set_active_scanners" -> set_active_scanners(p, call.count)
      [] call.method = "set_active_llm_workers" -> set_active_llm_workers(p, call.count)

RECURSIVE AfterCalls(_, _)
AfterCalls(p, cs) == IF cs = <<>> THEN p ELSE AfterCalls(AfterCall(p, Head(cs)), Tail(cs))

ScannerThread(i) == <<"scanner", i>>
WorkerThread(w) == <<"worker", w>>

\* Faulty variant: the display call also counts a generated description in
\* total_generated.
Display_Counts(t) ==
    /\ calls[t] # <<>>
    /\ progress' = AfterCall(progress, Head(calls[t]))
    /\ calls' = [calls EXCEPT ![t] = Tail(@)]
    /\ total_generated' =
           IF Head(calls[t]).method = "increment_descriptions_generated"
           THEN total_generated + 1 ELSE total_generated
    /\ UNCHANGED <<store_vars, main_pc, main_k, entity_queue, wk, active_llm_workers,
                   scan_vars, tracker_vars, total_skipped, log_vars>>

\* A thread makes the ProgressCounter call that comes next in its code: the
\* counter changes under the counter's lock, nothing else does.
Display(t) ==
    /\ calls[t] # <<>>
    /\ progress' = AfterCall(progress, Head(calls[t]))
    /\ calls' = [calls EXCEPT ![t] = Tail(@)]
    /\ UNCHANGED <<store_vars, run_vars>>

\* A step of thread t together with the ProgressCounter calls around it: the
\* calls made inside the step's critical section (under scanner_lock or
\* llm_worker_lock) take effect with the step, the calls after it are made
\* before the thread's next step.
Shown(t, step, inside, after) ==
    /\ calls[t] = <<>>
    /\ step
    /\ progress' = AfterCalls(progress, inside)
    /\ calls' = [calls EXCEPT ![t] = after]

\* scan_with_tracking's loop: progress.increment_entities_to_generate() after
\* the put of an item that needs generation, and after the last put
\* progress.increment_entities_discovered(len(entities_with_context)).
PutCalls(i) ==
    LET ewcs == sc[i].entities_with_context
    IN (IF ewcs[sc[i].k].needs_generation
        THEN <<ProgressCall("increment_entities_to_generate", 1)>> ELSE <<>>)
       \o (IF sc[i].k = Len(ewcs)
           THEN <<ProgressCall("increment_entities_discovered", Len(ewcs))>> ELSE <<>>)

\* llm_worker: progress.increment_descriptions_generated() after
\* "total_generated += 1".
CountCalls(w) ==
    IF wk[w].was_generated
    THEN <<ProgressCall("increment_descriptions_generated", 0)>> ELSE <<>>

\* llm_worker: progress.increment_lod_files_written() after write_lod_file.
WriteCalls(w) ==
    IF lod_writes' # lod_writes
    THEN <<ProgressCall("increment_lod_files_written", 0)>> ELSE <<>>

\* Number of pipeline_generate runs followed with the progress display.
MaxProgressRuns == 1

\* The pipeline with its progress display.
ProgressNext ==
    \/ \E t \in ProgressThreads : Display(t)
    \/ \E f \in BOOLEAN : StartRun(f) /\ run' <= MaxProgressRuns /\ Silent
    \/ \E i \in Tasks :
          Shown(ScannerThread(i), ScanStart(i),
                <<ProgressCall("set_active_scanners", active_scanners')>>, <<>>)
    \/ \E i \in Tasks : Shown(ScannerThread(i), ScanFile(i), <<>>, <<>>)
    \/ \E i \in Tasks : Shown(ScannerThread(i), ScanRegister(i), <<>>, <<>>)
    \/ \E i \in Tasks : Shown(ScannerThread(i), ScanPut(i), <<>>, PutCalls(i))
    \/ \E i \in Tasks :
          Shown(ScannerThread(i), ScanFinally(i),
                <<ProgressCall("set_active_scanners", active_scanners')>>, <<>>)
    \/ \E w \in Workers :
          Shown(WorkerThread(w), WorkerGet(w),
                IF active_llm_workers' # active_llm_workers
                THEN <<ProgressCall("set_active_llm_workers", active_llm_workers')>>
                ELSE <<>>,
                <<>>)
    \/ \E w \in Workers : Shown(WorkerThread(w), WorkerCached(w), <<>>, <<>>)
    \/ \E w \in Workers : Shown(WorkerThread(w), WorkerGenerate(w), <<>>, <<>>)
    \/ \E w \in Workers : Shown(WorkerThread(w), WorkerSetGet(w), <<>>, <<>>)
    \/ \E w \in Workers : Shown(WorkerThread(w), WorkerSetWrite(w), <<>>, <<>>)
    \/ \E w \in Workers : Shown(WorkerThread(w), WorkerCountRead(w), <<>>, <<>>)
    \/ \E w \in Workers : Shown(WorkerThread(w), WorkerCountWrite(w), <<>>, CountCalls(w))
    \/ \E w \in Workers : Shown(WorkerThread(w), WorkerAddResult(w), <<>>, <<>>)
    \/ \E w \in Workers : Shown(WorkerThread(w), WorkerFileComplete(w), <<>>, <<>>)
    \/ \E w \in Workers : Shown(WorkerThread(w), WorkerWriteLod(w), <<>>, WriteCalls(w))
    \/ \E w \in Workers :
          Shown(WorkerThread(w), WorkerFinally(w),
                <<ProgressCall("set_active_llm_workers", active_llm_workers')>>, <<>>)
    \/ MainPutSentinel1 /\ Silent
    \/ MainPutSentinel2 /\ Silent
    \/ MainStartPhase2 /\ Silent
    \/ PipelineReturn /\ Silent

ProgressSpec == Init /\ [][ProgressNext]_vars

\* A step of the pipeline as it is without the progress display.
PipelineStep ==
    \/ \E f \in BOOLEAN : StartRun(f)
    \/ \E i \in Tasks : ScannerStep(i)
    \/ \E w \in Workers : WorkerStep(w)
    \/ MainStep

\* C31: progress reporting is purely observational.  With the progress display
\* every step either changes the ProgressCounter alone or is, on the store, the
\* queue, the tracker, the counts and the writer calls, a step of the pipeline
\* without the display; and a ProgressCounter call never has to wait, so no
\* step of the pipeline without the display is lost.
C31_ProgressIsObservational ==
    /\ [][PipelineStep]_<<store_vars, run_vars>>
    /\ [](\A t \in ProgressThreads : calls[t] # <<>> => ENABLED Display(t))

\* A run with the display has returned; descriptions were generated and files
\* written, and the display showed them.
C31_Witness ==
    /\ main_pc = "done"
    /\ total_generated > 0
    /\ progress.descriptions_generated > 0
    /\ progress.lod_files_written > 0
    /\ progress.entities_discovered = 4

\* ------------------------------------------------------------------ symbolic links

\* b is a symbolic link to a: two entries of the input list resolve to one file.
LinkInit ==
    /\ config \in Configs
    /\ DOMAIN config.model_settings = {}
    /\ Idle
    /\ linked = {"b"}
    /\ NoCalls

\* One pipeline_generate call on an input list with a symbolic link.
LinkSpec == LinkInit /\ [][LiveNext]_vars

\* ------------------------------------------------------------------ C32..C38

\* The files registered with the tracker, each with the count registered.
Registered == {p \in Paths : file_entity_counts[p] > 0}

\* add_result is called for file p and returns True.
ReturnsTrue(w, p) ==
    /\ WorkerAddResult(w)
    /\ wk[w].ewc.file_path = p
    /\ wk'[w].pc = "file_complete"

\* C32: for a registered file with K entities the pending count stays within
\* 0..K and is K minus the number of results accumulated for the file, and
\* add_result returns True for at most one call per file: the call that adds
\* the K-th result, after which no call for the file follows.  (When b is a
\* symbolic link to a the file is registered twice, and the second
\* registration sets the count back to K.)
C32_PendingCountsDownToZeroOnce ==
    /\ [](\A p \in Registered :
              /\ pending_per_file[p] \in 0..file_entity_counts[p]
              /\ pending_per_file[p] = file_entity_counts[p] - Len(results_per_file[p]))
    /\ [][\A w \in Workers, p \in Paths :
              /\ WorkerAddResult(w) /\ wk[w].ewc.file_path = p =>
                     p \in Registered /\ pending_per_file[p] > 0
              /\ ReturnsTrue(w, p) =>
                     /\ Len(results_per_file'[p]) = file_entity_counts[p]
                     /\ pending_per_file'[p] = 0]_vars

\* The work items that have left their scanner task: those waiting in the queue
\* and those a worker holds.
ItemsOut ==
    {entity_queue[n] : n \in {m \in 1..Len(entity_queue) : ~IsSentinel(entity_queue[m])}}
    \cup {wk[w].ewc : w \in {v \in Workers : wk[v].pc \notin {"off", "get", "exited"}}}

\* C33: a file's pending count and language are registered before any of its
\* work items is put on the queue: every work item in the queue or in a
\* worker's hands belongs to a file with a registered count and language, a
\* scanner task that is putting items has registered its file, add_result is
\* only called for a registered file, and write_lod_file gets a language.
C33_RegisteredBeforeQueued ==
    /\ \A x \in ItemsOut :
           /\ x.file_path \in Registered
           /\ file_languages[x.file_path] # None
    /\ \A i \in Tasks :
           sc[i].pc = "put" =>
               /\ sc[i].entities_with_context[1].file_path \in Registered
               /\ file_languages[sc[i].entities_with_context[1].file_path] # None
    /\ \A p \in Paths :
           /\ results_per_file[p] # <<>> => p \in Registered
           /\ \A n \in 1..Len(lod_writes[p]) : lod_writes[p][n].language # None

\* A worker that added a's last result is about to call write_lod_file and
\* finds a's language.
C33_Witness ==
    \E w \in Workers :
        /\ wk[w].pc = "write"
        /\ wk[w].ewc.file_path = "a"
        /\ file_languages["a"] = "python"
        /\ Len(results_per_file["a"]) = 2

\* C34: when two entries of the input list resolve to the same file, the
\* file's output is written at most once, and the pairs handed to
\* write_lod_file hold each entity of the file at most once.
C34_LinkedFileWrittenOnce ==
    \A p \in Paths :
        (\E i, j \in Tasks : i # j /\ Resolve(files[i]) = p /\ Resolve(files[j]) = p) =>
            /\ Len(lod_writes[p]) <= 1
            /\ \A n \in 1..Len(lod_writes[p]) :
                   LET pairs == lod_writes[p][n].entity_desc_pairs
                   IN \A k, m \in 1..Len(pairs) : pairs[k].k = pairs[m].k => k = m

\* The locks taken first (scanner_lock, llm_worker_lock, the lock made by
\* "with threading.Lock():") and the locks taken inside them or alone.
OuterLocks == {"scanner_lock", "llm_worker_lock", "fresh_lock"}
InnerLocks == {"progress", "tracker"}

\* The wait of thread t ends by steps of other threads: t can take a step, or
\* it waits for a lock whose holder's wait ends (n bounds the length of the
\* chain of waiting threads).
RECURSIVE WaitEnds(_, _)
WaitEnds(t, n) ==
    \/ ENABLED ThreadStep(t)
    \/ /\ n > 1
       /\ Op(t).op = "acquire"
       /\ \E u \in LockThreads \ {t} : Op(t).lock \in lk_held[u] /\ WaitEnds(u, n - 1)

\* C35: the pipeline is deadlock-free.  A thread enters a lock either holding
\* none, or holding outer locks only and entering the progress counter's or
\* the tracker's lock; a thread that cannot take its next step either waits
\* for a lock that will be released (its holder can take a step, or waits in
\* turn for such a lock), or is a worker at entity_queue.get() with the queue
\* empty and sentinels still to be put.
C35_DeadlockFree ==
    \A t \in LockThreads :
        /\ Op(t).op = "acquire" =>
               \/ lk_held[t] = {}
               \/ lk_held[t] \subseteq OuterLocks /\ Op(t).lock \in InnerLocks
        /\ (Op(t).op # "end" /\ ~ENABLED ThreadStep(t)) =>
               \/ WaitEnds(t, Cardinality(LockThreads))
               \/ /\ t[1] = "worker"
                  /\ Op(t).what = "get"
                  /\ lk_queue.items + lk_queue.sentinels = 0
                  /\ lk_queue.pushed < MaxLockWorkers

\* The scanner holds scanner_lock and waits for the progress counter's lock,
\* which a worker holds inside llm_worker_lock, while the other worker waits at
\* entity_queue.get() on the empty queue.
C35_Witness ==
    \E u \in LockThreads, v \in LockThreads :
        /\ u[1] = "worker" /\ v[1] = "worker"
        /\ lk_held[<<"scanner", 1>>] = {"scanner_lock"}
        /\ WaitsFor(<<"scanner", 1>>, "progress")
        /\ lk_held[u] = {"llm_worker_lock", "progress"}
        /\ Op(v).what = "get"
        /\ lk_queue.items + lk_queue.sentinels = 0
        /\ ~ENABLED ThreadStep(v)

\* The same at the level of the pipeline's steps, with the queue's contents: a
\* started worker that cannot take a step is at entity_queue.get() on the empty
\* queue while the main thread has not put the first sentinels, and a started
\* scanner task can always take a step.
OnlyGetBlocks ==
    /\ \A w \in Workers :
           (wk[w].pc \notin {"off", "exited"} /\ ~ENABLED WorkerStep(w)) =>
               wk[w].pc = "get" /\ entity_queue = <<>> /\ main_pc = "scanning"
    /\ \A i \in Tasks : Running(i) => ENABLED ScannerStep(i)

\* C36: in every state the progress counters satisfy
\* descriptions_generated <= entities_to_generate <= entities_discovered.
C36_ProgressCountersOrdered ==
    /\ progress.descriptions_generated <= progress.entities_to_generate
    /\ progress.entities_to_generate <= progress.entities_discovered

SentinelsQueued == Cardinality({n \in 1..Len(entity_queue) : IsSentinel(entity_queue[n])})
WorkersExited == Cardinality({w \in Workers : wk[w].pc = "exited"})

\* C38: each worker consumes exactly one sentinel (the sentinels put so far
\* are those still queued plus one per worker that has left its loop); no work
\* item is in the queue once a sentinel has been dequeued; the second batch of
\* workers finds only sentinels and processes no work item; and the queue is
\* empty when pipeline_generate returns.
C38_OneSentinelPerWorker ==
    /\ main_pc = "scanning" => SentinelsQueued + WorkersExited = main_k
    /\ main_pc = "join1" => SentinelsQueued + WorkersExited = MaxParallelism + main_k
    /\ main_pc = "phase2" =>
           SentinelsQueued = MaxParallelism /\ WorkersExited = MaxParallelism
    /\ main_pc = "join2" => SentinelsQueued + WorkersExited = MaxParallelism
    /\ WorkersExited > 0 =>
           \A n \in 1..Len(entity_queue) : IsSentinel(entity_queue[n])
    /\ main_pc \in {"phase2", "join2", "done"} =>
           /\ \A n \in 1..Len(entity_queue) : IsSentinel(entity_queue[n])
           /\ \A w \in Workers : wk[w].pc \in {"get", "exited"}
    /\ main_pc = "done" => entity_queue = <<>> /\ WorkersExited = MaxParallelism

\* pipeline_generate has returned from a run whose first pool processed all
\* four work items: the queue is empty and the workers of the second batch have
\* each read a sentinel.
C38_Witness ==
    /\ main_pc = "done"
    /\ entity_queue = <<>>
    /\ WorkersExited = MaxParallelism
    /\ Len(results_per_file["a"]) + Len(results_per_file["b"]) = 4

====
